---- MODULE Spec2Model ----
(***************************************************************************)
(* skill-router: BM25 routing of a message to skills.                      *)
(*                                                                         *)
(* Text is modelled at character level: a string is a sequence of          *)
(* one-character strings, so that tokenize (lower-casing, punctuation      *)
(* stripping, splitting, the stopword filter) and String.includes are      *)
(* computed rather than assumed.                                           *)
(*                                                                         *)
(* Numbers: k1, b and avgDocLength are exact rationals [n, d]; a score is  *)
(* a fixed-point integer, Scale units to 1.0, because Math.log is          *)
(* irrational.  Ln computes the natural logarithm by its atanh series.     *)
(***************************************************************************)
EXTENDS Integers, Sequences, FiniteSets, TLC

(***************************************************************************)
(* Bounds of the model.                                                    *)
(***************************************************************************)
MaxSkills == 3
MaxTextLen == 5
MaxLines == 4
MaxEntries == 2

(***************************************************************************)
(* Strings.                                                                *)
(***************************************************************************)
UpperCase == <<"A", "B", "C", "D", "E", "F", "G", "H", "I", "J", "K", "L", "M",
               "N", "O", "P", "Q", "R", "S", "T", "U", "V", "W", "X", "Y", "Z">>

LowerCase == <<"a", "b", "c", "d", "e", "f", "g", "h", "i", "j", "k", "l", "m",
               "n", "o", "p", "q", "r", "s", "t", "u", "v", "w", "x", "y", "z">>

Digits == {"0", "1", "2", "3", "4", "5", "6", "7", "8", "9"}

Whitespace == {" ", "\t", "\n"}

Range(s) == {s[i] : i \in DOMAIN s}

\* String.prototype.toLowerCase, one character
toLowerCase(c) ==
    IF \E i \in DOMAIN UpperCase : UpperCase[i] = c
    THEN LowerCase[CHOOSE i \in DOMAIN UpperCase : UpperCase[i] = c]
    ELSE c

\* the character class [a-z0-9\s-] of tokenize's replace
IsKept(c) == c \in Range(LowerCase) \cup Digits \cup Whitespace \cup {"-"}

\* String.prototype.includes: term occurs in keyword as a contiguous substring
includes(keyword, term) ==
    \E i \in 0..(Len(keyword) - Len(term)) :
        \A j \in 1..Len(term) : keyword[i + j] = term[j]

\* [...new Set(xs)]: first occurrences, in order
RECURSIVE Unique(_)
Unique(xs) ==
    IF xs = <<>> THEN <<>>
    ELSE LET front == Unique(SubSeq(xs, 1, Len(xs) - 1))
             last == xs[Len(xs)]
         IN IF last \in Range(front) THEN front ELSE Append(front, last)

(***************************************************************************)
(* keywords.ts: the tokenizer.                                             *)
(***************************************************************************)
STOPWORDS == {
    <<"a">>, <<"a", "n">>, <<"a", "n", "d">>, <<"a", "r", "e">>, <<"a", "s">>, <<"a", "t">>,
    <<"b", "e">>, <<"b", "y">>, <<"c", "a", "n">>, <<"d", "o">>, <<"f", "o", "r">>,
    <<"f", "r", "o", "m">>, <<"h", "a", "s">>, <<"h", "a", "v", "e">>, <<"h", "e">>,
    <<"h", "e", "r">>, <<"h", "i", "s">>, <<"h", "o", "w">>, <<"i">>, <<"i", "f">>,
    <<"i", "n">>, <<"i", "s">>, <<"i", "t">>, <<"i", "t", "s">>, <<"j", "u", "s", "t">>,
    <<"m", "a", "y">>, <<"m", "e">>, <<"m", "y">>, <<"n", "o">>, <<"n", "o", "t">>,
    <<"o", "f">>, <<"o", "n">>, <<"o", "r">>, <<"o", "u", "r">>, <<"o", "u", "t">>,
    <<"o", "w", "n">>, <<"s", "a", "y">>, <<"s", "h", "e">>, <<"s", "o">>,
    <<"s", "o", "m", "e">>, <<"t", "h", "a", "n">>, <<"t", "h", "a", "t">>, <<"t", "h", "e">>,
    <<"t", "h", "e", "i", "r">>, <<"t", "h", "e", "m">>, <<"t", "h", "e", "n">>,
    <<"t", "h", "e", "r", "e">>, <<"t", "h", "e", "s", "e">>, <<"t", "h", "e", "y">>,
    <<"t", "h", "i", "s">>, <<"t", "h", "o", "s", "e">>, <<"t", "h", "r", "o", "u", "g", "h">>,
    <<"t", "o">>, <<"t", "o", "o">>, <<"u", "p">>, <<"u", "s">>, <<"u", "s", "e">>,
    <<"v", "e", "r", "y">>, <<"w", "a", "s">>, <<"w", "e">>, <<"w", "e", "r", "e">>,
    <<"w", "h", "a", "t">>, <<"w", "h", "e", "n">>, <<"w", "h", "e", "r", "e">>,
    <<"w", "h", "i", "c", "h">>, <<"w", "h", "i", "l", "e">>, <<"w", "h", "o">>,
    <<"w", "h", "y">>, <<"w", "i", "l", "l">>, <<"w", "i", "t", "h">>,
    <<"w", "o", "u", "l", "d">>, <<"y", "o", "u">>, <<"y", "o", "u", "r">>,
    <<"e", "x", "a", "m", "p", "l", "e">>, <<"s", "e", "e">>, <<"n", "o", "t", "e">>,
    <<"u", "s", "i", "n", "g">>, <<"u", "s", "e", "d">>, <<"u", "s", "e", "s">>
}

MIN_TOKEN_LENGTH == 2

\* text.split(/\s+/): the pieces between maximal runs of whitespace; a run at
\* either end leaves an empty piece there, and "" splits to [""].
RECURSIVE SplitFrom(_, _, _, _)
SplitFrom(text, i, cur, inRun) ==
    IF i > Len(text) THEN <<cur>>
    ELSE IF text[i] \in Whitespace
         THEN IF inRun THEN SplitFrom(text, i + 1, cur, TRUE)
              ELSE <<cur>> \o SplitFrom(text, i + 1, <<>>, TRUE)
         ELSE SplitFrom(text, i + 1, Append(cur, text[i]), FALSE)

splitWhitespace(text) == SplitFrom(text, 1, <<>>, FALSE)

\* tokenize that drops the repetitions of a word
tokenize_unique(text) ==
    LET lowered == [i \in DOMAIN text |-> toLowerCase(text[i])]
        replaced == [i \in DOMAIN lowered |->
                        IF IsKept(lowered[i]) THEN lowered[i] ELSE " "]
        words == SelectSeq(splitWhitespace(replaced),
                           LAMBDA word : Len(word) >= MIN_TOKEN_LENGTH)
    IN Unique(SelectSeq(words, LAMBDA word : word \notin STOPWORDS))

\* tokenize without the stopword filter
tokenize_keepStopwords(text) ==
    LET lowered == [i \in DOMAIN text |-> toLowerCase(text[i])]
        replaced == [i \in DOMAIN lowered |->
                        IF IsKept(lowered[i]) THEN lowered[i] ELSE " "]
    IN SelectSeq(splitWhitespace(replaced),
                 LAMBDA word : Len(word) >= MIN_TOKEN_LENGTH)

tokenize(text) ==
    LET lowered == [i \in DOMAIN text |-> toLowerCase(text[i])]
        replaced == [i \in DOMAIN lowered |->
                        IF IsKept(lowered[i]) THEN lowered[i] ELSE " "]
        words == SelectSeq(splitWhitespace(replaced),
                           LAMBDA word : Len(word) >= MIN_TOKEN_LENGTH)
    IN SelectSeq(words, LAMBDA word : word \notin STOPWORDS)

extractUniqueTokens(text) == Unique(tokenize(text))

tokenizeQuery(message) == tokenize(message)

(***************************************************************************)
(* keywords.ts: the Keywords section.                                      *)
(***************************************************************************)
SetMin(S) == CHOOSE x \in S : \A y \in S : x <= y
SetMax(S) == CHOOSE x \in S : \A y \in S : x >= y

\* String.prototype.trim
RECURSIVE trimStart(_)
trimStart(str) ==
    IF str # <<>> /\ str[1] \in Whitespace THEN trimStart(Tail(str)) ELSE str

RECURSIVE trimEnd(_)
trimEnd(str) ==
    IF str # <<>> /\ str[Len(str)] \in Whitespace
    THEN trimEnd(SubSeq(str, 1, Len(str) - 1))
    ELSE str

trim(str) == trimEnd(trimStart(str))

\* String.prototype.toLowerCase
lowerCase(str) == [i \in DOMAIN str |-> toLowerCase(str[i])]

\* str.split(','): the pieces between the commas, "" splits to [""]
RECURSIVE splitCommaFrom(_, _, _)
splitCommaFrom(str, i, cur) ==
    IF i > Len(str) THEN <<cur>>
    ELSE IF str[i] = "," THEN <<cur>> \o splitCommaFrom(str, i + 1, <<>>)
         ELSE splitCommaFrom(str, i + 1, Append(cur, str[i]))

splitComma(str) == splitCommaFrom(str, 1, <<>>)

\* pat occurs in str at position i
startsWithAt(str, i, pat) ==
    /\ i + Len(pat) - 1 <= Len(str)
    /\ SubSeq(str, i, i + Len(pat) - 1) = pat

\* \s* from position i on: the first position that holds no whitespace
RECURSIVE skipWhitespace(_, _)
skipWhitespace(str, i) ==
    IF i <= Len(str) /\ str[i] \in Whitespace THEN skipWhitespace(str, i + 1) ELSE i

keyword == <<"k", "e", "y", "w", "o", "r", "d">>

\* /##\s*keywords?\s*\n/i tried at position i: the position after the match,
\* or 0.  Both \s* are greedy; the second gives back what follows its last
\* newline.
headingEnd(content, i) ==
    IF ~startsWithAt(content, i, <<"#", "#">>) THEN 0
    ELSE LET k == skipWhitespace(content, i + 2)
         IN IF ~startsWithAt(lowerCase(content), k, keyword) THEN 0
            ELSE LET rest == IF startsWithAt(lowerCase(content), k + Len(keyword), <<"s">>)
                             THEN k + Len(keyword) + 1
                             ELSE k + Len(keyword)
                     stop == skipWhitespace(content, rest)
                     newlines == {j \in rest..(stop - 1) : content[j] = "\n"}
                 IN IF newlines = {} THEN 0 ELSE SetMax(newlines) + 1

\* (?=\n##|\n$|$) at position e
blockEndsAt(content, e) ==
    \/ startsWithAt(content, e, <<"\n", "#", "#">>)
    \/ e = Len(content) /\ content[e] = "\n"
    \/ e = Len(content) + 1

\* content.match(/##\s*keywords?\s*\n([\s\S]*?)(?=\n##|\n$|$)/i): the leftmost
\* match and its group, the shortest stretch that ends where the lookahead holds
keywordsMatch(content) ==
    LET starts == {i \in 1..Len(content) : headingEnd(content, i) > 0}
    IN IF starts = {} THEN [found |-> FALSE, block |-> <<>>]
       ELSE LET from == headingEnd(content, SetMin(starts))
                to == SetMin({e \in from..(Len(content) + 1) : blockEndsAt(content, e)})
            IN [found |-> TRUE, block |-> SubSeq(content, from, to - 1)]

\* the last position of the line that holds position q
RECURSIVE lineEnd(_, _)
lineEnd(str, q) ==
    IF q < Len(str) /\ str[q + 1] # "\n" THEN lineEnd(str, q + 1) ELSE q

\* block.matchAll(/^[-*]\s*(.+)$/gm), searched from position from on: the
\* groups.  ^ is a line start, \s* runs over any whitespace (newlines too),
\* (.+) is the rest of the line it arrives in.
RECURSIVE listMatches(_, _)
listMatches(block, from) ==
    LET starts == {p \in from..Len(block) :
                      /\ p = 1 \/ block[p - 1] = "\n"
                      /\ block[p] \in {"-", "*"}
                      /\ skipWhitespace(block, p + 1) <= Len(block)}
    IN IF starts = {} THEN <<>>
       ELSE LET q == skipWhitespace(block, SetMin(starts) + 1)
            IN <<SubSeq(block, q, lineEnd(block, q))>>
                   \o listMatches(block, lineEnd(block, q) + 1)

\* k.trim().toLowerCase() of every piece, those of MIN_TOKEN_LENGTH or more
cleanKeywords(pieces) ==
    SelectSeq([i \in DOMAIN pieces |-> lowerCase(trim(pieces[i]))],
              LAMBDA k : Len(k) >= MIN_TOKEN_LENGTH)

\* the keywords of a trimmed block: the comma-separated ones when the block
\* has no newline or has a comma, then the list items
blockKeywords(keywordsBlock) ==
    LET commaKeywords ==
            IF "\n" \notin Range(keywordsBlock) \/ "," \in Range(keywordsBlock)
            THEN cleanKeywords(splitComma(keywordsBlock))
            ELSE <<>>
    IN Unique(commaKeywords \o cleanKeywords(listMatches(keywordsBlock, 1)))

extractKeywordsSection(content) ==
    IF ~keywordsMatch(content).found THEN <<>>
    ELSE blockKeywords(trim(keywordsMatch(content).block))

\* the description's tokens ahead of the explicit keywords
extractKeywords_descriptionFirst(description, content) ==
    Unique(extractUniqueTokens(description) \o extractKeywordsSection(content))

extractKeywords(description, content) ==
    Unique(extractKeywordsSection(content) \o extractUniqueTokens(description))

(***************************************************************************)
(* Numbers.                                                                *)
(***************************************************************************)
\* fixed-point unit of scores, IDF values and thresholds
Scale == 100 * 100

RECURSIVE GCD(_, _)
GCD(a, b) == IF b = 0 THEN a ELSE GCD(b, a % b)

\* the rational n/d (d > 0), in lowest terms
Rat(n, d) ==
    LET g == GCD(IF n < 0 THEN -n ELSE n, d)
    IN IF g = 0 THEN [n |-> 0, d |-> 1] ELSE [n |-> n \div g, d |-> d \div g]

Int2Rat(i) == [n |-> i, d |-> 1]
RAdd(x, y) == Rat(x.n * y.d + y.n * x.d, x.d * y.d)
RSub(x, y) == Rat(x.n * y.d - y.n * x.d, x.d * y.d)
RMul(x, y) == Rat(x.n * y.n, x.d * y.d)
\* x / y for y > 0
RDiv(x, y) == Rat(x.n * y.d, x.d * y.n)

\* sum of pow/k + pow*z2/(k+2) + ... in fixed point, until the term vanishes
RECURSIVE AtanhSeries(_, _, _)
AtanhSeries(pow, z2, k) ==
    IF pow = 0 THEN 0
    ELSE (pow \div k) + AtanhSeries((pow * z2) \div Scale, z2, k + 2)

\* Math.log(p / q) for p, q > 0, in fixed point: ln x = 2 atanh((x-1)/(x+1))
RECURSIVE Ln(_, _)
Ln(p, q) ==
    IF p < q THEN 0 - Ln(q, p)
    ELSE LET z == ((p - q) * Scale) \div (p + q)
         IN 2 * AtanhSeries(z, (z * z) \div Scale, 1)

(***************************************************************************)
(* indexer.ts: the index and its statistics.                               *)
(***************************************************************************)
\* null: no index
NoIndex == [version |-> 0]

\* the names of the scanned skills, first occurrence wins
RECURSIVE scanAllSkillDirectories(_)
scanAllSkillDirectories(found) ==
    IF found = <<>> THEN <<>>
    ELSE LET skills == scanAllSkillDirectories(SubSeq(found, 1, Len(found) - 1))
             skill == found[Len(found)]
             seenNames == {skills[i].name : i \in DOMAIN skills}
         IN IF skill.name \notin seenNames THEN Append(skills, skill) ELSE skills

\* new Set([...skill.keywords, ...skill.tokens]), in insertion order
allTerms(skill) == Unique(skill.keywords \o skill.tokens)

\* The all-lower-case property names every object literal inherits from
\* Object.prototype: df["constructor"] is the function Object and
\* df["__proto__"] is Object.prototype itself, neither of them nullish.
constructor == <<"c", "o", "n", "s", "t", "r", "u", "c", "t", "o", "r">>
proto == <<"_", "_", "p", "r", "o", "t", "o", "_", "_">>

\* A value of the documentFrequency record is a number n >= 1, or the string
\* "function Object() { [native code] }" followed by k characters "1", which
\* is what (df[term] ?? 0) + 1 yields k times over for the term constructor.
\* The string with k ones is written 0 - k.
ObjectFunctionPlusOnes(k) == 0 - k

\* df[term] = (df[term] ?? 0) + 1
countTerm(df, term) ==
    IF term \in DOMAIN df
    THEN [df EXCEPT ![term] = IF @ > 0 THEN @ + 1
                              ELSE ObjectFunctionPlusOnes((0 - @) + 1)]
    \* "[object Object]1" assigned to __proto__: the setter ignores a string
    ELSE IF term = proto THEN df
    ELSE IF term = constructor THEN df @@ (term :> ObjectFunctionPlusOnes(1))
    ELSE df @@ (term :> 1)

\* the inner loop of calculateDocumentFrequency over terms[1..i]
RECURSIVE countTerms(_, _, _)
countTerms(df, terms, i) ==
    IF i = 0 THEN df ELSE countTerm(countTerms(df, terms, i - 1), terms[i])

\* Record<string, number>, built by the loop over the skills
RECURSIVE calculateDocumentFrequency(_)
calculateDocumentFrequency(skills) ==
    IF skills = <<>> THEN [term \in {} |-> 0]
    ELSE LET df == calculateDocumentFrequency(SubSeq(skills, 1, Len(skills) - 1))
             terms == allTerms(skills[Len(skills)])
         IN countTerms(df, terms, Len(terms))

RECURSIVE totalLength(_)
totalLength(skills) ==
    IF skills = <<>> THEN 0
    ELSE totalLength(Tail(skills)) + Len(skills[1].keywords) + Len(skills[1].tokens)

\* the mean over the keywords alone
calculateAvgDocLength_keywordsOnly(skills) ==
    IF Len(skills) = 0 THEN Int2Rat(0)
    ELSE Rat(totalLength([i \in DOMAIN skills |->
                            [keywords |-> skills[i].keywords, tokens |-> <<>>]]),
             Len(skills))

calculateAvgDocLength(skills) ==
    IF Len(skills) = 0 THEN Int2Rat(0)
    ELSE Rat(totalLength(skills), Len(skills))

\* now is new Date().toISOString()
buildIndex(found, now) ==
    LET skills == scanAllSkillDirectories(found)
    IN [version |-> 1,
        generated |-> now,
        skills |-> skills,
        documentFrequency |-> calculateDocumentFrequency(skills),
        avgDocLength |-> calculateAvgDocLength(skills)]

(***************************************************************************)
(* indexer.ts: the index file.                                             *)
(*                                                                         *)
(* A SkillEntry property that may be undefined (tools) is a record         *)
(* [defined, list]; an object that lacks the property has no such field.   *)
(* A JSON text is modelled by the document it denotes: an object member is *)
(* a field, and a member JSON.stringify leaves out is a field left out.    *)
(***************************************************************************)
Undefined == [defined |-> FALSE, list |-> <<>>]

\* reading skill.tools: undefined when the object has no such property
readTools(skill) == IF "tools" \in DOMAIN skill THEN skill.tools ELSE Undefined

\* JSON.stringify of a SkillEntry that leaves tools out in every case
stringifySkill_noTools(skill) ==
    [name |-> skill.name, description |-> skill.description,
     location |-> skill.location, keywords |-> skill.keywords,
     tokens |-> skill.tokens, alwaysInclude |-> skill.alwaysInclude]

\* JSON.stringify of a SkillEntry: a property whose value is undefined is
\* left out
stringifySkill(skill) ==
    IF readTools(skill).defined
    THEN [name |-> skill.name, description |-> skill.description,
          location |-> skill.location, keywords |-> skill.keywords,
          tokens |-> skill.tokens, tools |-> skill.tools.list,
          alwaysInclude |-> skill.alwaysInclude]
    ELSE [name |-> skill.name, description |-> skill.description,
          location |-> skill.location, keywords |-> skill.keywords,
          tokens |-> skill.tokens, alwaysInclude |-> skill.alwaysInclude]

\* JSON.stringify(index, null, 2); the numbers of an index are finite and
\* print in the shortest form that reads back as the same number
stringify(idx) ==
    [version |-> idx.version,
     generated |-> idx.generated,
     skills |-> [i \in DOMAIN idx.skills |-> stringifySkill(idx.skills[i])],
     documentFrequency |-> idx.documentFrequency,
     avgDocLength |-> idx.avgDocLength]

\* JSON.parse of a SkillEntry's text: the members present become properties
parseSkill(member) ==
    IF "tools" \in DOMAIN member
    THEN [name |-> member.name, description |-> member.description,
          location |-> member.location, keywords |-> member.keywords,
          tokens |-> member.tokens,
          tools |-> [defined |-> TRUE, list |-> member.tools],
          alwaysInclude |-> member.alwaysInclude]
    ELSE [name |-> member.name, description |-> member.description,
          location |-> member.location, keywords |-> member.keywords,
          tokens |-> member.tokens, alwaysInclude |-> member.alwaysInclude]

\* JSON.parse(raw) as SkillIndex; the text null parses to null
parse(document) ==
    IF document = NoIndex THEN NoIndex
    ELSE [version |-> document.version,
          generated |-> document.generated,
          skills |-> [i \in DOMAIN document.skills |-> parseSkill(document.skills[i])],
          documentFrequency |-> document.documentFrequency,
          avgDocLength |-> document.avgDocLength]

\* what is at the index path
NoFile == [kind |-> "absent"]
Directory == [kind |-> "directory"]
Garbage == [kind |-> "file", json |-> FALSE, document |-> NoIndex]
NullFile == [kind |-> "file", json |-> TRUE, document |-> NoIndex]

\* writeFileSync(filePath, JSON.stringify(index, null, 2), 'utf-8')
saveIndex(idx) == [kind |-> "file", json |-> TRUE, document |-> stringify(idx)]

\* the try block of loadIndex: readFileSync throws on a directory, JSON.parse
\* throws on a text that is not JSON
loadIndexBody(f) ==
    IF f.kind = "absent" THEN [threw |-> FALSE, value |-> NoIndex]
    ELSE IF f.kind = "directory" THEN [threw |-> TRUE, value |-> NoIndex]
    ELSE IF ~f.json THEN [threw |-> TRUE, value |-> NoIndex]
    ELSE [threw |-> FALSE, value |-> parse(f.document)]

\* loadIndex without its catch
loadIndex_noCatch(f) == loadIndexBody(f)

\* loadIndex: a throw inside the try block becomes a return of null
loadIndex(f) ==
    IF loadIndexBody(f).threw THEN [threw |-> FALSE, value |-> NoIndex]
    ELSE loadIndexBody(f)

(***************************************************************************)
(* indexer.ts: reading the skill directories.                              *)
(*                                                                         *)
(* A directory is [kind, entries]: absent, unreadable (readdirSync throws) *)
(* or a directory with its entries in readdirSync order.  An entry is      *)
(* [kind, skillFile]: a plain file, a link to nothing (statSync throws) or *)
(* a directory whose SKILL.md is absent, unreadable (readFileSync throws)  *)
(* or a file with front matter and content.  A front matter property that  *)
(* is missing is a field the record does not have.                         *)
(***************************************************************************)
NoParsed == [frontmatter |-> [missing |-> TRUE]]

\* the try block of parseSkillFile
parseSkillFileBody(skillFile) ==
    IF skillFile.kind # "file" THEN [threw |-> TRUE, value |-> NoParsed]
    ELSE LET frontmatter == skillFile.frontmatter
         IN IF \/ "name" \notin DOMAIN frontmatter
               \/ frontmatter.name = ""
               \/ "description" \notin DOMAIN frontmatter
               \/ frontmatter.description = <<>>
            THEN [threw |-> FALSE, value |-> NoParsed]
            ELSE [threw |-> FALSE,
                  value |-> [frontmatter |-> frontmatter, content |-> skillFile.content]]

\* parseSkillFile without its catch
parseSkillFile_noCatch(skillFile) == parseSkillFileBody(skillFile)

\* parseSkillFile: a throw inside the try block becomes a return of null
parseSkillFile(skillFile) ==
    IF parseSkillFileBody(skillFile).threw THEN [threw |-> FALSE, value |-> NoParsed]
    ELSE parseSkillFileBody(skillFile)

\* the entry pushed for a parsed skill file; the files have neither tools nor
\* metadata in their front matter
skillEntry(parsed, skillDir) ==
    [name |-> parsed.frontmatter.name,
     description |-> parsed.frontmatter.description,
     location |-> skillDir,
     keywords |-> extractKeywords(parsed.frontmatter.description, parsed.content),
     tokens |-> extractUniqueTokens(parsed.content),
     tools |-> Undefined,
     alwaysInclude |-> FALSE]

\* the loop of scanSkillDirectory from entry i on; a throw inside it ends the
\* loop, and the catch leaves the skills pushed so far
RECURSIVE scanEntries(_, _, _, _)
scanEntries(entries, basePath, i, skills) ==
    IF i > Len(entries) THEN skills
    ELSE LET entry == entries[i]
             skillDir == [basePath |-> basePath, entry |-> i]
         IN IF entry.kind = "dangling" THEN skills
            ELSE IF entry.kind = "directory" /\ entry.skillFile.kind # "absent"
            THEN LET parsed == parseSkillFile(entry.skillFile)
                 IN IF parsed.threw THEN skills
                    ELSE IF parsed.value # NoParsed
                    THEN scanEntries(entries, basePath, i + 1,
                                     Append(skills, skillEntry(parsed.value, skillDir)))
                    ELSE scanEntries(entries, basePath, i + 1, skills)
            ELSE scanEntries(entries, basePath, i + 1, skills)

scanSkillDirectory(directory, basePath) ==
    IF directory.kind = "absent" THEN <<>>
    ELSE IF directory.kind = "unreadable" THEN <<>>
    ELSE scanEntries(directory.entries, basePath, 1, <<>>)

\* config.ts: the workspace skills, then the managed skills
getSkillDirectories == <<"workspace", "managed-skills">>

\* the additional paths first
directories_additionalFirst(paths) == paths \o getSkillDirectories

\* [...getSkillDirectories(), ...additionalPaths]
directories(paths) == getSkillDirectories \o paths

\* the skills of the directories one after the other, as the two loops of
\* scanAllSkillDirectories come to them
RECURSIVE dirSkills(_, _)
dirSkills(dsk, dirs) ==
    IF dirs = <<>> THEN <<>>
    ELSE scanSkillDirectory(dsk[Head(dirs)], Head(dirs)) \o dirSkills(dsk, Tail(dirs))

(***************************************************************************)
(* scorer.ts: BM25.                                                        *)
(***************************************************************************)
\* the ratio upside down: (n + 0.5) / (N - n + 0.5) + 1
calculateIDF_inverted(idx, term) ==
    LET N == Len(idx.skills)
        n == IF term \in DOMAIN idx.documentFrequency
             THEN idx.documentFrequency[term] ELSE 0
    IN IF n = 0 THEN 0
       ELSE Ln((2 * n + 1) + (2 * (N - n) + 1), 2 * (N - n) + 1)

calculateIDF(idx, term) ==
    LET N == Len(idx.skills)
        n == IF term \in DOMAIN idx.documentFrequency
             THEN idx.documentFrequency[term] ELSE 0
    IN IF n = 0 THEN 0
       \* (N - n + 0.5) / (n + 0.5) + 1, numerator and denominator doubled
       ELSE Ln((2 * (N - n) + 1) + (2 * n + 1), 2 * n + 1)

\* a keyword match counted like a token match
RECURSIVE countEqualOrContaining_weightOne(_, _)
countEqualOrContaining_weightOne(keywords, term) ==
    IF keywords = <<>> THEN 0
    ELSE countEqualOrContaining_weightOne(Tail(keywords), term)
         + (IF keywords[1] = term \/ includes(keywords[1], term) THEN 1 ELSE 0)

RECURSIVE countEqualOrContaining(_, _)
countEqualOrContaining(keywords, term) ==
    IF keywords = <<>> THEN 0
    ELSE countEqualOrContaining(Tail(keywords), term)
         + (IF keywords[1] = term \/ includes(keywords[1], term) THEN 2 ELSE 0)

\* tokens matched by containment, like keywords
RECURSIVE countEqual_containing(_, _)
countEqual_containing(tokens, term) ==
    IF tokens = <<>> THEN 0
    ELSE countEqual_containing(Tail(tokens), term)
         + (IF includes(tokens[1], term) THEN 1 ELSE 0)

RECURSIVE countEqual(_, _)
countEqual(tokens, term) ==
    IF tokens = <<>> THEN 0
    ELSE countEqual(Tail(tokens), term) + (IF tokens[1] = term THEN 1 ELSE 0)

getTermFrequency(skill, term) ==
    countEqualOrContaining(skill.keywords, term) + countEqual(skill.tokens, term)

getDocLength(skill) == Len(skill.keywords) + Len(skill.tokens)

\* idf * (numerator / denominator) for one query term with tf > 0
termScore(idx, k1, b, skill, term) ==
    LET tf == getTermFrequency(skill, term)
        idf == calculateIDF(idx, term)
        numerator == RMul(Int2Rat(tf), RAdd(k1, Int2Rat(1)))
        norm == RAdd(RSub(Int2Rat(1), b),
                     RMul(b, RDiv(Int2Rat(getDocLength(skill)), idx.avgDocLength)))
        denominator == RAdd(Int2Rat(tf), RMul(k1, norm))
        ratio == RDiv(numerator, denominator)
    IN (idf * ratio.n) \div ratio.d

\* the loop of scoreSkill over queryTerms[1..i]
RECURSIVE scoreLoop(_, _, _, _, _, _)
scoreLoop(idx, k1, b, skill, queryTerms, i) ==
    IF i = 0 THEN [score |-> 0, matchedKeywords |-> <<>>]
    ELSE LET acc == scoreLoop(idx, k1, b, skill, queryTerms, i - 1)
             term == queryTerms[i]
         IN IF getTermFrequency(skill, term) > 0
            THEN [score |-> acc.score + termScore(idx, k1, b, skill, term),
                  matchedKeywords |-> Append(acc.matchedKeywords, term)]
            ELSE acc

\* scoreSkill that takes each query term once, however often it occurs
scoreSkill_oncePerTerm(idx, k1, b, skill, queryTerms) ==
    LET acc == scoreLoop(idx, k1, b, skill, Unique(queryTerms),
                         Len(Unique(queryTerms)))
    IN [skill |-> skill,
        score |-> acc.score,
        matchedKeywords |-> Unique(acc.matchedKeywords)]

scoreSkill(idx, k1, b, skill, queryTerms) ==
    LET acc == scoreLoop(idx, k1, b, skill, queryTerms, Len(queryTerms))
    IN [skill |-> skill,
        score |-> acc.score,
        matchedKeywords |-> Unique(acc.matchedKeywords)]

\* a sort that puts a result before the earlier results of the same score
RECURSIVE insertByScore_unstable(_, _)
insertByScore_unstable(sorted, r) ==
    IF sorted = <<>> THEN <<r>>
    ELSE IF sorted[Len(sorted)].score > r.score THEN Append(sorted, r)
         ELSE Append(insertByScore_unstable(SubSeq(sorted, 1, Len(sorted) - 1), r),
                     sorted[Len(sorted)])

\* Array.prototype.sort with (a, b) => b.score - a.score: stable, descending
RECURSIVE insertByScore(_, _)
insertByScore(sorted, r) ==
    IF sorted = <<>> THEN <<r>>
    ELSE IF sorted[Len(sorted)].score >= r.score THEN Append(sorted, r)
         ELSE Append(insertByScore(SubSeq(sorted, 1, Len(sorted) - 1), r),
                     sorted[Len(sorted)])

RECURSIVE sortByScore(_)
sortByScore(rs) ==
    IF rs = <<>> THEN <<>>
    ELSE insertByScore(sortByScore(SubSeq(rs, 1, Len(rs) - 1)), rs[Len(rs)])

\* a scoreAll that sorts this.index.skills itself into score order
indexAfterScoreAll_sortedInPlace(idx, k1, b, message) ==
    IF Len(tokenizeQuery(message)) = 0 THEN idx
    ELSE LET sorted == sortByScore([i \in DOMAIN idx.skills |->
                          scoreSkill(idx, k1, b, idx.skills[i], tokenizeQuery(message))])
         IN [idx EXCEPT !.skills = [i \in DOMAIN sorted |-> sorted[i].skill]]

\* this.index after scoreAll: the loop only reads index.skills, and the array
\* that is sorted in place is results, created inside the call
indexAfterScoreAll(idx, k1, b, message) == idx

\* scoreAll that leaves out the documents that matched nothing
scoreAll_matchedOnly(idx, k1, b, message) ==
    LET queryTerms == tokenizeQuery(message)
    IN IF Len(queryTerms) = 0 THEN <<>>
       ELSE SelectSeq(sortByScore([i \in DOMAIN idx.skills |->
                                     scoreSkill(idx, k1, b, idx.skills[i], queryTerms)]),
                      LAMBDA r : r.matchedKeywords # <<>>)

\* scoreAll without the early return for a query with no terms
scoreAll_noGuard(idx, k1, b, message) ==
    sortByScore([i \in DOMAIN idx.skills |->
                    scoreSkill(idx, k1, b, idx.skills[i], tokenizeQuery(message))])

scoreAll(idx, k1, b, message) ==
    LET queryTerms == tokenizeQuery(message)
    IN IF Len(queryTerms) = 0 THEN <<>>
       ELSE sortByScore([i \in DOMAIN idx.skills |->
                            scoreSkill(idx, k1, b, idx.skills[i], queryTerms)])

\* a slice that keeps the last entries instead of the first
slice0_fromEnd(xs, end) ==
    LET k == IF end < 0 THEN (IF Len(xs) + end < 0 THEN 0 ELSE Len(xs) + end)
             ELSE (IF end > Len(xs) THEN Len(xs) ELSE end)
    IN SubSeq(xs, Len(xs) - k + 1, Len(xs))

\* Array.prototype.slice(0, end)
slice0(xs, end) ==
    LET k == IF end < 0 THEN (IF Len(xs) + end < 0 THEN 0 ELSE Len(xs) + end)
             ELSE (IF end > Len(xs) THEN Len(xs) ELSE end)
    IN SubSeq(xs, 1, k)

\* the synthetic zero result for every always-include skill
existingOrZero_synthetic(all, skill) ==
    [skill |-> skill, score |-> 0, matchedKeywords |-> <<>>]

\* Array.prototype.find by skill name, or the synthetic zero result
existingOrZero(all, skill) ==
    IF \E i \in DOMAIN all : all[i].skill.name = skill.name
    THEN all[CHOOSE i \in DOMAIN all :
                /\ all[i].skill.name = skill.name
                /\ \A j \in 1..(i - 1) : all[j].skill.name # skill.name]
    ELSE [skill |-> skill, score |-> 0, matchedKeywords |-> <<>>]

\* the frontmatter flag alone, config.alwaysInclude forgotten
isAlwaysInclude_flagOnly(skill, cfg) == skill.alwaysInclude

isAlwaysInclude(skill, cfg) ==
    skill.alwaysInclude \/ skill.name \in Range(cfg.alwaysInclude)

\* the filter without the exclusion of always-include skills
isEligible_keepAlways(r, cfg, alwaysIncludeNames) == r.score >= cfg.threshold

\* the filter without the threshold
isEligible_noThreshold(r, cfg, alwaysIncludeNames) ==
    r.skill.name \notin alwaysIncludeNames

\* the filter of scoreQuery: over the threshold and not an always-include skill
isEligible(r, cfg, alwaysIncludeNames) ==
    /\ r.score >= cfg.threshold
    /\ r.skill.name \notin alwaysIncludeNames

\* scoreQuery that returns the top results ahead of the always-include ones
scoreQuery_topFirst(idx, message, cfg) ==
    LET all == scoreAll(idx, cfg.bm25K1, cfg.bm25B, message)
        alwaysIncludeSkills ==
            SelectSeq(idx.skills, LAMBDA s : isAlwaysInclude(s, cfg))
        alwaysIncludeNames ==
            {alwaysIncludeSkills[i].name : i \in DOMAIN alwaysIncludeSkills}
        filteredResults ==
            SelectSeq(all, LAMBDA r : isEligible(r, cfg, alwaysIncludeNames))
        topResults == slice0(filteredResults, cfg.maxResults)
        alwaysIncludeResults ==
            [i \in DOMAIN alwaysIncludeSkills |->
                existingOrZero(all, alwaysIncludeSkills[i])]
    IN topResults \o alwaysIncludeResults

scoreQuery(idx, message, cfg) ==
    LET all == scoreAll(idx, cfg.bm25K1, cfg.bm25B, message)
        alwaysIncludeSkills ==
            SelectSeq(idx.skills, LAMBDA s : isAlwaysInclude(s, cfg))
        alwaysIncludeNames ==
            {alwaysIncludeSkills[i].name : i \in DOMAIN alwaysIncludeSkills}
        filteredResults ==
            SelectSeq(all, LAMBDA r : isEligible(r, cfg, alwaysIncludeNames))
        topResults == slice0(filteredResults, cfg.maxResults)
        alwaysIncludeResults ==
            [i \in DOMAIN alwaysIncludeSkills |->
                existingOrZero(all, alwaysIncludeSkills[i])]
    IN alwaysIncludeResults \o topResults

(***************************************************************************)
(* types.ts: the default configuration.                                    *)
(***************************************************************************)
DEFAULT_CONFIG ==
    [maxResults |-> 3,
     threshold |-> (3 * Scale) \div 10,
     bm25K1 |-> Rat(12, 10),
     bm25B |-> Rat(75, 100),
     alwaysInclude |-> <<"skill-router">>]

(***************************************************************************)
(* config.ts: getConfig.                                                   *)
(*                                                                         *)
(* process.env is a function from the variable names to [set, value]; a    *)
(* variable that is not set has set = FALSE.  A number that is NaN is      *)
(* [nan |-> TRUE].  The strings hold no exponent and no Infinity.          *)
(***************************************************************************)
MAX_RESULTS == "SKILL_ROUTER_MAX_RESULTS"
THRESHOLD == "SKILL_ROUTER_THRESHOLD"
BM25_K1 == "SKILL_ROUTER_BM25_K1"
BM25_B == "SKILL_ROUTER_BM25_B"
ALWAYS_INCLUDE == "SKILL_ROUTER_ALWAYS_INCLUDE"

EnvNames == {MAX_RESULTS, THRESHOLD, BM25_K1, BM25_B, ALWAYS_INCLUDE}

Unset == [set |-> FALSE, value |-> <<>>]
NoEnv == [v \in EnvNames |-> Unset]

NaN == [nan |-> TRUE, value |-> Int2Rat(0)]

DigitChars == <<"0", "1", "2", "3", "4", "5", "6", "7", "8", "9">>
DigitValue(c) == (CHOOSE i \in DOMAIN DigitChars : DigitChars[i] = c) - 1

\* how many digits str holds from position i on
RECURSIVE digitsAt(_, _)
digitsAt(str, i) ==
    IF i <= Len(str) /\ str[i] \in Digits THEN 1 + digitsAt(str, i + 1) ELSE 0

\* the number written by the n digits that end at position last
RECURSIVE numberAt(_, _, _)
numberAt(str, last, n) ==
    IF n = 0 THEN 0 ELSE 10 * numberAt(str, last - 1, n - 1) + DigitValue(str[last])

RECURSIVE pow10(_)
pow10(n) == IF n = 0 THEN 1 ELSE 10 * pow10(n - 1)

\* parseInt(str, 10): leading whitespace, a sign, then the digits there are
parseInt(str) ==
    LET s == trimStart(str)
        signed == s # <<>> /\ s[1] \in {"+", "-"}
        first == IF signed THEN 2 ELSE 1
        n == digitsAt(s, first)
        magnitude == numberAt(s, first + n - 1, n)
    IN IF n = 0 THEN NaN
       ELSE [nan |-> FALSE,
             value |-> Int2Rat(IF signed /\ s[1] = "-" THEN 0 - magnitude ELSE magnitude)]

\* parseFloat(str): leading whitespace, a sign, digits, a point and digits;
\* at least one digit on one side of the point
parseFloat(str) ==
    LET s == trimStart(str)
        signed == s # <<>> /\ s[1] \in {"+", "-"}
        first == IF signed THEN 2 ELSE 1
        n == digitsAt(s, first)
        point == first + n <= Len(s) /\ s[first + n] = "."
        f == IF point THEN digitsAt(s, first + n + 1) ELSE 0
        whole == numberAt(s, first + n - 1, n)
        fraction == numberAt(s, first + n + f, f)
        magnitude == Rat(whole * pow10(f) + fraction, pow10(f))
    IN IF n = 0 /\ f = 0 THEN NaN
       ELSE [nan |-> FALSE,
             value |-> IF signed /\ s[1] = "-" THEN RSub(Int2Rat(0), magnitude)
                       ELSE magnitude]

\* process.env.X ?? ''
orEmpty(variable) == IF variable.set THEN variable.value ELSE <<>>

\* number || otherwise: NaN and 0 are falsy
orElse(number, otherwise) ==
    IF number.nan \/ number.value.n = 0 THEN otherwise ELSE number.value

\* a score in fixed point
toScore(r) == (r.n * Scale) \div r.d

\* a name of the list: the text of an entry, or the empty string
nameOf(piece) == IF piece = <<>> THEN "" ELSE piece[1]

\* value.split(',').map((s) => s.trim()); a value is written as its commas,
\* its whitespace characters and its names, each name one element
splitNames(value) ==
    LET pieces == splitComma(value)
    IN [i \in DOMAIN pieces |-> nameOf(trim(pieces[i]))]

\* getConfig() without contextFilePath and indexPath
getConfig(e) ==
    [maxResults |-> orElse(parseInt(orEmpty(e[MAX_RESULTS])),
                           Int2Rat(DEFAULT_CONFIG.maxResults)).n,
     threshold |-> IF parseFloat(orEmpty(e[THRESHOLD])).nan
                      \/ parseFloat(orEmpty(e[THRESHOLD])).value.n = 0
                   THEN DEFAULT_CONFIG.threshold
                   ELSE toScore(parseFloat(orEmpty(e[THRESHOLD])).value),
     bm25K1 |-> orElse(parseFloat(orEmpty(e[BM25_K1])), DEFAULT_CONFIG.bm25K1),
     bm25B |-> orElse(parseFloat(orEmpty(e[BM25_B])), DEFAULT_CONFIG.bm25B),
     alwaysInclude |-> IF e[ALWAYS_INCLUDE].set /\ e[ALWAYS_INCLUDE].value # <<>>
                       THEN splitNames(e[ALWAYS_INCLUDE].value)
                       ELSE DEFAULT_CONFIG.alwaysInclude]

(***************************************************************************)
(* commands/build.ts and commands/match.ts.                                *)
(*                                                                         *)
(* An option that is not given is [set |-> FALSE].  A command is           *)
(* [exitCode, file] with the file it leaves at the path it writes to; an   *)
(* uncaught exception ends the process with status 1.                      *)
(***************************************************************************)
NotGiven == [set |-> FALSE, value |-> 0]

\* a build that keeps an existing file unless force is set
buildCommand_keepUnlessForced(paths, forced, dsk, f, now) ==
    LET idx == buildIndex(dirSkills(dsk, directories(paths)), now)
    IN IF Len(idx.skills) = 0 THEN [exitCode |-> 0, file |-> f]
       ELSE IF f.kind = "directory" THEN [exitCode |-> 1, file |-> f]
       ELSE IF f.kind # "absent" /\ ~ forced THEN [exitCode |-> 0, file |-> f]
       ELSE [exitCode |-> 0, file |-> saveIndex(idx)]

\* buildCommand({force, paths}) with the file f at the index path; the force
\* option is not read
buildCommand(paths, forced, dsk, f, now) ==
    LET idx == buildIndex(dirSkills(dsk, directories(paths)), now)
    IN IF Len(idx.skills) = 0 THEN [exitCode |-> 0, file |-> f]
       ELSE IF f.kind = "directory" THEN [exitCode |-> 1, file |-> f]
       ELSE [exitCode |-> 0, file |-> saveIndex(idx)]

\* writeContextFile(results, contextPath): the file generated from results
writeContextFile(res) == [kind |-> "file", results |-> res]

\* the configuration matchCommand gives to scoreQuery
matchConfig(options, cfg) ==
    [maxResults |-> IF options.maxResults.set THEN options.maxResults.value
                    ELSE cfg.maxResults,
     threshold |-> IF options.threshold.set THEN options.threshold.value
                   ELSE cfg.threshold,
     bm25K1 |-> cfg.bm25K1,
     bm25B |-> cfg.bm25B,
     alwaysInclude |-> cfg.alwaysInclude]

\* a match that writes the context file only when a skill is matched
matchCommand_unlessEmpty(message, options, e, f, ctx) ==
    LET idx == loadIndex(f).value
        res == scoreQuery(idx, message, matchConfig(options, getConfig(e)))
    IN IF idx = NoIndex
       THEN [exitCode |-> 1, scored |-> FALSE, results |-> <<>>, file |-> ctx]
       ELSE [exitCode |-> 0, scored |-> TRUE, results |-> res,
             file |-> IF res = <<>> THEN ctx ELSE writeContextFile(res)]

\* matchCommand(message, options) with the file f at the index path and ctx
\* at the context path
matchCommand(message, options, e, f, ctx) ==
    LET idx == loadIndex(f).value
        res == scoreQuery(idx, message, matchConfig(options, getConfig(e)))
    IN IF idx = NoIndex
       THEN [exitCode |-> 1, scored |-> FALSE, results |-> <<>>, file |-> ctx]
       ELSE [exitCode |-> 0, scored |-> TRUE, results |-> res,
             file |-> writeContextFile(res)]

(***************************************************************************)
(* Inputs: skills found on disk, messages, configurations.                 *)
(***************************************************************************)
github == <<"g", "i", "t", "h", "u", "b">>
git == <<"g", "i", "t">>
sql == <<"s", "q", "l">>
pr == <<"p", "r">>

Names == {"skill-router", "alpha", "beta"}

\* keywords and tokens of a skill: a keyword-only and a token-only match of the
\* same term, and a longer skill that shares the term and has its own
Shapes ==
    {[keywords |-> <<github>>, tokens |-> <<>>],
     [keywords |-> <<>>, tokens |-> <<github>>],
     [keywords |-> <<sql>>, tokens |-> <<github, pr>>]}

\* skills that may carry metadata.openclaw.always in their frontmatter
FlaggableNames == {"alpha"}

SkillPool ==
    {[name |-> n, keywords |-> s.keywords, tokens |-> s.tokens, alwaysInclude |-> a] :
        n \in Names, s \in Shapes, a \in BOOLEAN}

Found == {s \in SkillPool : s.alwaysInclude => s.name \in FlaggableNames}

\* what the directory scans return, in scan order (names may repeat)
FoundLists == UNION {[1..n -> Found] : n \in 0..MaxSkills}

\* a wider choice of keywords and tokens, for the scorer on its own: skills
\* sharing a term, skills of different lengths, keyword-only and token-only
\* holders of the same term, a skill with no term at all
ScorerShapes ==
    {[keywords |-> <<github>>, tokens |-> <<>>],
     [keywords |-> <<>>, tokens |-> <<github>>],
     [keywords |-> <<sql, github>>, tokens |-> <<>>],
     [keywords |-> <<sql>>, tokens |-> <<github>>],
     [keywords |-> <<github>>, tokens |-> <<pr, sql>>],
     [keywords |-> <<>>, tokens |-> <<>>]}

ScorerNames == <<"skill-router", "alpha", "beta", "gamma">>

ScorerFoundLists ==
    UNION {{[i \in 1..n |->
                [name |-> ScorerNames[i], keywords |-> shape[i].keywords,
                 tokens |-> shape[i].tokens, alwaysInclude |-> FALSE]] :
              shape \in [1..n -> ScorerShapes]} :
           n \in 0..MaxSkills}

NoMessage == <<>>
StopwordsOnly == <<"T", "h", "e", " ", "a", "n", "d", ",", " ", "I", "S", " ", "a">>
MsgGithub == <<"g", "i", "t", "h", "u", "b">>
MsgGit == <<"g", "i", "t">>
MsgSql == <<"s", "q", "l">>
MsgGithubSql == <<"G", "i", "t", "H", "u", "b", " ", "S", "Q", "L", "!">>
MsgSqlTwice == <<"s", "q", "l", " ", "s", "q", "l">>

\* messages given to scoreAll
Messages == {NoMessage, StopwordsOnly, MsgGithub, MsgGit, MsgGithubSql, MsgSqlTwice}

\* messages given to scoreQuery
QueryMessages == {NoMessage, StopwordsOnly, MsgSql, MsgGithubSql}

\* <<k1, b>> handed to the scorer: k1 >= 0 and 0 <= b <= 1
ScorerParams ==
    {<<DEFAULT_CONFIG.bm25K1, DEFAULT_CONFIG.bm25B>>,
     <<Rat(0, 1), DEFAULT_CONFIG.bm25B>>,
     <<Rat(2, 1), Rat(0, 1)>>,
     <<Rat(1, 2), Rat(1, 1)>>}

TooHigh == 100 * Scale
Thresholds == {0, DEFAULT_CONFIG.threshold, TooHigh}
MaxResultsValues == {-1, 0, 1, DEFAULT_CONFIG.maxResults}
AlwaysIncludeLists == {<<>>, DEFAULT_CONFIG.alwaysInclude}

\* skills as scanSkillDirectory pushes them: a term held as keyword and as
\* token, a skill without tools, the terms constructor and __proto__
IndexerShapes ==
    {[description |-> "GitHub PR", keywords |-> <<github>>, tokens |-> <<github, pr>>,
      tools |-> [defined |-> TRUE, list |-> <<"Bash", "Read">>], alwaysInclude |-> FALSE],
     [description |-> "SQL", keywords |-> <<sql>>, tokens |-> <<>>,
      tools |-> Undefined, alwaysInclude |-> TRUE],
     [description |-> "Constructor", keywords |-> <<constructor>>, tokens |-> <<sql>>,
      tools |-> Undefined, alwaysInclude |-> FALSE],
     [description |-> "GitHub", keywords |-> <<github, proto>>, tokens |-> <<>>,
      tools |-> [defined |-> TRUE, list |-> <<>>], alwaysInclude |-> FALSE]}

IndexerFoundLists ==
    UNION {{[i \in 1..n |->
                [name |-> ScorerNames[i], description |-> shape[i].description,
                 location |-> ScorerNames[i], keywords |-> shape[i].keywords,
                 tokens |-> shape[i].tokens, tools |-> shape[i].tools,
                 alwaysInclude |-> shape[i].alwaysInclude]] :
              shape \in [1..n -> IndexerShapes]} :
           n \in 0..MaxSkills}

\* what may come to be at the index path by other hands
OtherFiles == {NoFile, Directory, Garbage, NullFile}

\* texts given to tokenize: every text over Alphabet, and the messages
Alphabet == {"a", "N", "-", " ", "!"}

Texts ==
    UNION {[1..n -> Alphabet] : n \in 0..MaxTextLen}
        \cup {StopwordsOnly, MsgGithubSql, MsgSqlTwice}

\* lines of a SKILL.md body: a Keywords heading of level 2 and one of level 3,
\* another heading, comma-separated keywords, a list item, a line in bold, an
\* empty line, a plain word
BodyLines ==
    {<<"#", "#", " ", "K", "e", "y", "w", "o", "r", "d", "s">>,
     <<"#", "#", "#", " ", "k", "e", "y", "w", "o", "r", "d">>,
     <<"#", "#", " ", "O", "t", "h", "e", "r">>,
     <<"G", "i", "t", ",", " ", "s", "q", "l">>,
     <<"-", " ", "P", "R">>,
     <<"*", "*", "G", "i", "t", "*", "*">>,
     <<>>,
     <<"s", "q", "l">>}

\* the lines joined by newlines
RECURSIVE JoinLines(_)
JoinLines(lines) ==
    IF lines = <<>> THEN <<>>
    ELSE IF Len(lines) = 1 THEN lines[1]
         ELSE lines[1] \o <<"\n">> \o JoinLines(Tail(lines))

\* the bodies given to extractKeywordsSection, and the shorter ones given to
\* extractKeywords together with a description
Bodies == {JoinLines(ls) : ls \in UNION {[1..n -> BodyLines] : n \in 0..MaxLines}}

ShortBodies ==
    {JoinLines(ls) : ls \in UNION {[1..n -> BodyLines] : n \in 0..(MaxLines - 2)}}

Descriptions ==
    {<<"G", "i", "t", "H", "u", "b", " ", "P", "R">>,
     <<"s", "q", "l", " ", "G", "i", "t", " ", "s", "q", "l">>,
     <<"T", "h", "e">>}

\* the directories a scan can be given
Paths == {"workspace", "managed-skills", "extra", "more"}

NoDirectory == [kind |-> "absent", entries |-> <<>>]
UnreadableDirectory == [kind |-> "unreadable", entries |-> <<>>]
NoDirectories == [p \in Paths |-> NoDirectory]

\* SKILL.md files: two complete ones, one without a name, one without a
\* description, one that cannot be read
SkillFile(frontmatter, body) == [kind |-> "file", frontmatter |-> frontmatter, content |-> body]

AlphaFile == SkillFile([name |-> "alpha", description |-> <<"G", "i", "t">>], <<"s", "q", "l">>)
BetaFile == SkillFile([name |-> "beta", description |-> <<"s", "q", "l", " ", "P", "R">>],
                      <<"#", "#", " ", "K", "e", "y", "w", "o", "r", "d", "s", "\n", "G", "i", "t">>)
NamelessFile == SkillFile([description |-> <<"G", "i", "t">>], <<"s", "q", "l">>)
UndescribedFile == SkillFile([name |-> "gamma"], <<"s", "q", "l">>)
UnreadableFile == [kind |-> "unreadable"]

SkillDir(skillFile) == [kind |-> "directory", skillFile |-> skillFile]

\* a plain file, a directory without SKILL.md, a link to nothing
PlainFile == [kind |-> "file", skillFile |-> NoFile]
EmptyDir == SkillDir(NoFile)
Dangling == [kind |-> "dangling", skillFile |-> NoFile]

Entries ==
    {SkillDir(AlphaFile), SkillDir(BetaFile), SkillDir(NamelessFile),
     SkillDir(UndescribedFile), SkillDir(UnreadableFile), PlainFile, EmptyDir, Dangling}

\* the workspace skills directory in every shape, the others in a few
WorkspaceDirectories ==
    {NoDirectory, UnreadableDirectory}
    \cup {[kind |-> "directory", entries |-> es] :
             es \in UNION {[1..n -> Entries] : n \in 0..MaxEntries}}

ManagedDirectories ==
    {NoDirectory,
     [kind |-> "directory", entries |-> <<SkillDir(AlphaFile)>>],
     [kind |-> "directory", entries |-> <<SkillDir(BetaFile), SkillDir(AlphaFile)>>]}

ExtraDirectories ==
    {NoDirectory,
     [kind |-> "directory", entries |-> <<SkillDir(BetaFile), SkillDir(AlphaFile)>>]}

Disks ==
    {[p \in Paths |-> IF p = "workspace" THEN w
                      ELSE IF p = "managed-skills" THEN m
                      ELSE IF p = "extra" THEN x[1] ELSE x[2]] :
        w \in WorkspaceDirectories, m \in ManagedDirectories,
        x \in ExtraDirectories \X ExtraDirectories}

\* what a numeric variable can hold: nothing, zero, numbers, a number with a
\* fraction, text, a number followed by text
EnvStrings ==
    {<<>>, <<"0">>, <<"5">>, <<"-", "1">>, <<"0", ".", "5">>, <<"a", "b", "c">>, <<"2", "x">>}

EnvValues == {Unset} \cup {[set |-> TRUE, value |-> v] : v \in EnvStrings}

\* what SKILL_ROUTER_ALWAYS_INCLUDE can hold
EnvLists ==
    {Unset,
     [set |-> TRUE, value |-> <<>>],
     [set |-> TRUE, value |-> <<"alpha", ",", " ", "skill-router">>]}

Envs ==
    {[v \in EnvNames |-> IF v = MAX_RESULTS THEN n[1]
                         ELSE IF v = THRESHOLD THEN n[2]
                         ELSE IF v = BM25_K1 THEN n[3]
                         ELSE IF v = BM25_B THEN n[4] ELSE l] :
        n \in EnvValues \X EnvValues \X EnvValues \X EnvValues, l \in EnvLists}

\* the directories of the commands: none; one file without a name; one
\* skill; skills in two directories; skills in an additional path only
DirectoryOf(entries) == [kind |-> "directory", entries |-> entries]

CommandDisks ==
    {NoDirectories,
     [NoDirectories EXCEPT !["workspace"] = DirectoryOf(<<SkillDir(NamelessFile)>>)],
     [NoDirectories EXCEPT !["workspace"] = DirectoryOf(<<SkillDir(AlphaFile)>>)],
     [NoDirectories EXCEPT !["workspace"] = DirectoryOf(<<SkillDir(BetaFile)>>),
                           !["managed-skills"] = DirectoryOf(<<SkillDir(AlphaFile)>>)],
     [NoDirectories EXCEPT !["extra"] = DirectoryOf(<<SkillDir(BetaFile), SkillDir(AlphaFile)>>)]}

CommandPaths == {<<>>, <<"extra">>}

\* the options of a match: none, or --max-results 1
MatchOptions ==
    {[maxResults |-> NotGiven, threshold |-> NotGiven],
     [maxResults |-> [set |-> TRUE, value |-> 1], threshold |-> NotGiven]}

\* the messages of a match: one that matches a skill, one that matches none
CommandMessages == {MsgGit, StopwordsOnly}

\* options.paths of a build
AdditionalPaths == {<<>>, <<"extra">>, <<"extra", "more">>, <<"more", "extra">>}

\* what new Date().toISOString() returns when the index is built
Clock == {"2026-01-01T00:00:00.000Z"}

Configs ==
    {[maxResults |-> m, threshold |-> t, bm25K1 |-> DEFAULT_CONFIG.bm25K1,
      bm25B |-> DEFAULT_CONFIG.bm25B, alwaysInclude |-> ai] :
        m \in MaxResultsValues, t \in Thresholds, ai \in AlwaysIncludeLists}

(***************************************************************************)
(* The state machine.                                                      *)
(***************************************************************************)
VARIABLES
    pc,          \* "start": no index yet; "ready": index built; "scored": a call returned
    index,       \* the SkillIndex in memory, or NoIndex
    op,          \* the last call: "none", "buildIndex", "scoreAll", "scoreQuery", ...
    query,       \* the message of the last scoring call
    config,      \* the configuration of the last scoring call
    allResults,  \* what scoreAll returned to the last scoring call
    results,     \* what scoreQuery returned
    file,        \* what is at the index path
    loaded,      \* how the last loadIndex ended: [threw, value]
    text,        \* the argument of the last tokenize
    tokens,      \* what tokenize returned
    description, \* the description given to the last extractKeywords
    content,     \* the body given to the last extractKeywords(Section)
    keywords,    \* what extractKeywords(Section) returned
    disk,        \* the skill directories, by path
    additionalPaths, \* the extra paths given to the last buildIndex
    force,       \* the force option of the last build command
    env,         \* process.env: the SKILL_ROUTER_ variables
    contextFile, \* the file at the context path
    exitCode     \* the exit status of the last command

vars == <<pc, index, op, query, config, allResults, results, file, loaded, text, tokens,
         description, content, keywords, disk, additionalPaths, force, env,
         contextFile, exitCode>>

\* the state of a call of the scorer
scoring == <<query, config, allResults, results>>

\* the state of the index file and of the tokenizer
storage == <<file, loaded>>
lexing == <<text, tokens, description, content, keywords>>

\* what a command finds and leaves outside the process
scanning == <<disk, additionalPaths>>
outside == <<scanning, force, env, contextFile, exitCode>>

Init ==
    /\ pc = "start"
    /\ index = NoIndex
    /\ op = "none"
    /\ query = <<>>
    /\ config = DEFAULT_CONFIG
    /\ allResults = <<>>
    /\ results = <<>>
    /\ file = NoFile
    /\ loaded = [threw |-> FALSE, value |-> NoIndex]
    /\ text = <<>>
    /\ tokens = <<>>
    /\ description = <<>>
    /\ content = <<>>
    /\ keywords = <<>>
    /\ disk = NoDirectories
    /\ additionalPaths = <<>>
    /\ force = FALSE
    /\ env = NoEnv
    /\ contextFile = NoFile
    /\ exitCode = 0

BuildFrom(lists) ==
    /\ pc = "start"
    /\ \E found \in lists, now \in Clock : index' = buildIndex(found, now)
    /\ pc' = "ready"
    /\ op' = "buildIndex"
    /\ UNCHANGED <<scoring, storage, lexing, outside>>

BuildIndex == BuildFrom(FoundLists)

BuildScorerIndex == BuildFrom(ScorerFoundLists)

\* new BM25Scorer(index, k1, b).scoreAll(message)
ScoreAll ==
    /\ pc = "ready"
    /\ \E message \in Messages, kb \in ScorerParams :
        /\ query' = message
        /\ config' = [DEFAULT_CONFIG EXCEPT !.bm25K1 = kb[1], !.bm25B = kb[2]]
        /\ allResults' = scoreAll(index, kb[1], kb[2], message)
        /\ index' = indexAfterScoreAll(index, kb[1], kb[2], message)
    /\ pc' = "scored"
    /\ op' = "scoreAll"
    /\ UNCHANGED <<results, storage, lexing, outside>>

\* scoreQuery(index, message, cfg)
ScoreQuery ==
    /\ pc = "ready"
    /\ \E message \in QueryMessages, cfg \in Configs :
        /\ query' = message
        /\ config' = cfg
        /\ allResults' = scoreAll(index, cfg.bm25K1, cfg.bm25B, message)
        /\ results' = scoreQuery(index, message, cfg)
        \* filter, slice and map return new arrays
        /\ index' = indexAfterScoreAll(index, cfg.bm25K1, cfg.bm25B, message)
    /\ pc' = "scored"
    /\ op' = "scoreQuery"
    /\ UNCHANGED <<storage, lexing, outside>>

\* the caller drops the results; the loaded index stays
Return ==
    /\ pc = "scored"
    /\ pc' = "ready"
    /\ op' = "none"
    /\ query' = <<>>
    /\ config' = DEFAULT_CONFIG
    /\ allResults' = <<>>
    /\ results' = <<>>
    /\ UNCHANGED <<index, storage, lexing, outside>>

\* the router: build, then route messages
Next == BuildIndex \/ ScoreQuery \/ Return

Spec == Init /\ [][Next]_vars

\* the scorer on its own, over the wider skills and every <<k1, b>>
NextScorer == BuildScorerIndex \/ ScoreAll \/ Return

SpecScorer == Init /\ [][NextScorer]_vars

BuildIndexerIndex == BuildFrom(IndexerFoundLists)

\* saveIndex(index, path); writeFileSync throws when the path is a directory
SaveIndex ==
    /\ pc = "ready"
    /\ IF file.kind = "directory"
       THEN file' = file /\ op' = "saveIndex threw"
       ELSE file' = saveIndex(index) /\ op' = "saveIndex"
    /\ UNCHANGED <<pc, index, scoring, loaded, lexing, outside>>

\* loadIndex(path)
LoadIndex ==
    /\ loaded' = loadIndex(file)
    /\ op' = "loadIndex"
    /\ UNCHANGED <<pc, index, scoring, file, lexing, outside>>

\* the file at the index path is removed, replaced or damaged from outside
Disturb ==
    /\ \E f \in OtherFiles : f # file /\ file' = f
    /\ op' = "none"
    /\ UNCHANGED <<pc, index, scoring, loaded, lexing, outside>>

\* the indexer: build, save and load the index file
NextIndexer == BuildIndexerIndex \/ SaveIndex \/ LoadIndex \/ Disturb

SpecIndexer == Init /\ [][NextIndexer]_vars

\* tokenize(text)
Tokenize ==
    /\ op = "none"
    /\ \E t \in Texts :
        /\ text' = t
        /\ tokens' = tokenize(t)
    /\ op' = "tokenize"
    /\ UNCHANGED <<pc, index, scoring, storage, description, content, keywords, outside>>

\* the caller drops the tokens
Drop ==
    /\ op = "tokenize"
    /\ text' = <<>>
    /\ tokens' = <<>>
    /\ op' = "none"
    /\ UNCHANGED <<pc, index, scoring, storage, description, content, keywords, outside>>

\* the tokenizer on its own
NextTokenizer == Tokenize \/ Drop

SpecTokenizer == Init /\ [][NextTokenizer]_vars

\* extractKeywordsSection(content)
ExtractKeywordsSection ==
    /\ op = "none"
    /\ \E c \in Bodies :
        /\ content' = c
        /\ keywords' = extractKeywordsSection(c)
    /\ op' = "extractKeywordsSection"
    /\ UNCHANGED <<pc, index, scoring, storage, text, tokens, description, outside>>

\* extractKeywords(description, content)
ExtractKeywords ==
    /\ op = "none"
    /\ \E d \in Descriptions, c \in ShortBodies :
        /\ description' = d
        /\ content' = c
        /\ keywords' = extractKeywords(d, c)
    /\ op' = "extractKeywords"
    /\ UNCHANGED <<pc, index, scoring, storage, text, tokens, outside>>

\* the caller drops the keywords
DropKeywords ==
    /\ op \in {"extractKeywordsSection", "extractKeywords"}
    /\ description' = <<>>
    /\ content' = <<>>
    /\ keywords' = <<>>
    /\ op' = "none"
    /\ UNCHANGED <<pc, index, scoring, storage, text, tokens, outside>>

\* keyword extraction on its own
NextKeywords == ExtractKeywordsSection \/ ExtractKeywords \/ DropKeywords

SpecKeywords == Init /\ [][NextKeywords]_vars

\* buildIndex(additionalPaths) over the directories as they are on the disk
BuildIndexFromDisk ==
    /\ pc = "start"
    /\ \E d \in Disks, paths \in AdditionalPaths, now \in Clock :
        /\ disk' = d
        /\ additionalPaths' = paths
        /\ index' = buildIndex(dirSkills(d, directories(paths)), now)
    /\ pc' = "ready"
    /\ op' = "buildIndex"
    /\ UNCHANGED <<scoring, storage, lexing, force, env, contextFile, exitCode>>

\* the process ends
Exit ==
    /\ pc = "ready"
    /\ pc' = "start"
    /\ index' = NoIndex
    /\ op' = "none"
    /\ disk' = NoDirectories
    /\ additionalPaths' = <<>>
    /\ UNCHANGED <<scoring, storage, lexing, force, env, contextFile, exitCode>>

\* the scan of the skill directories on its own
NextScan == BuildIndexFromDisk \/ Exit

SpecScan == Init /\ [][NextScan]_vars

\* a process starts in an environment and calls getConfig()
GetConfig ==
    /\ op = "none"
    /\ \E e \in Envs :
        /\ env' = e
        /\ config' = getConfig(e)
    /\ op' = "getConfig"
    /\ UNCHANGED <<pc, index, query, allResults, results, storage, lexing, scanning,
                   force, contextFile, exitCode>>

\* the process ends
Unsetenv ==
    /\ op = "getConfig"
    /\ env' = NoEnv
    /\ config' = DEFAULT_CONFIG
    /\ op' = "none"
    /\ UNCHANGED <<pc, index, query, allResults, results, storage, lexing, scanning,
                   force, contextFile, exitCode>>

\* the configuration on its own
NextConfig == GetConfig \/ Unsetenv

SpecConfig == Init /\ [][NextConfig]_vars

\* skill-router build [--force] [--paths ...]
BuildCommand ==
    /\ \E d \in CommandDisks, paths \in CommandPaths, forced \in BOOLEAN, now \in Clock :
        /\ disk' = d
        /\ additionalPaths' = paths
        /\ force' = forced
        /\ file' = buildCommand(paths, forced, d, file, now).file
        /\ exitCode' = buildCommand(paths, forced, d, file, now).exitCode
    /\ op' = "buildCommand"
    /\ UNCHANGED <<pc, index, scoring, loaded, lexing, env, contextFile>>

\* skill-router match <message> [--max-results n]
MatchCommand ==
    /\ \E message \in CommandMessages, options \in MatchOptions :
        LET done == matchCommand(message, options, env, file, contextFile)
        IN  /\ exitCode' = done.exitCode
            /\ contextFile' = done.file
            /\ IF done.scored
               THEN /\ query' = message
                    /\ config' = matchConfig(options, getConfig(env))
                    /\ results' = done.results
               ELSE UNCHANGED <<query, config, results>>
    /\ op' = "matchCommand"
    /\ UNCHANGED <<pc, index, allResults, storage, lexing, scanning, force, env>>

\* the two commands, and what happens to the index file between them
NextCommands == BuildCommand \/ MatchCommand \/ Disturb

SpecCommands == Init /\ [][NextCommands]_vars

(***************************************************************************)
(* Properties of scoreQuery.                                               *)
(***************************************************************************)
\* the always-include documents of a call, as the documentation defines them
AlwaysDoc(skill) ==
    skill.alwaysInclude \/ \E i \in DOMAIN config.alwaysInclude :
                               config.alwaysInclude[i] = skill.name

\* positions of the output held by documents that are not always-include
Scored == {j \in DOMAIN results : ~AlwaysDoc(results[j].skill)}

\* C1: every always-include document of the index (flag set, or named in
\* config.alwaysInclude) is in the output of scoreQuery, whatever the query,
\* the threshold and maxResults.
C1_AlwaysIncluded ==
    op = "scoreQuery" =>
        \A i \in DOMAIN index.skills :
            AlwaysDoc(index.skills[i]) =>
                \E j \in DOMAIN results : results[j].skill = index.skills[i]

\* a flagged and a config-named document come out for a query that matches
\* nothing, under an unattainable threshold and a negative maxResults
C1_Witness ==
    /\ op = "scoreQuery"
    /\ query = StopwordsOnly
    /\ config.threshold = TooHigh
    /\ config.maxResults = -1
    /\ \E i, j \in DOMAIN results :
        /\ results[i].skill.alwaysInclude
        /\ ~results[j].skill.alwaysInclude
        /\ results[j].skill.name = "skill-router"
        /\ config.alwaysInclude = <<"skill-router">>

\* C2: for every config the output of scoreQuery holds at most
\* config.maxResults documents that are not always-include (so none of them
\* when maxResults is 0 or less).
C2_MaxResults ==
    op = "scoreQuery" =>
        Cardinality(Scored) <= (IF config.maxResults < 0 THEN 0 ELSE config.maxResults)

\* the same restricted to maxResults >= 0, where slice(0, maxResults) cuts at
\* maxResults
C2_MaxResultsNonNegative ==
    (op = "scoreQuery" /\ config.maxResults >= 0) =>
        Cardinality(Scored) <= config.maxResults

\* C3: no document is in the output of scoreQuery twice; an always-include
\* document is only in the always-include part, also when its score clears the
\* threshold.
C3_NoDuplicates ==
    op = "scoreQuery" =>
        \A i, j \in DOMAIN results :
            results[i].skill.name = results[j].skill.name => i = j

\* an always-include document whose score clears a positive threshold, with room
\* left in the top results
C3_Witness ==
    /\ op = "scoreQuery"
    /\ config.threshold = DEFAULT_CONFIG.threshold
    /\ config.maxResults = DEFAULT_CONFIG.maxResults
    /\ \E j \in DOMAIN results :
        /\ AlwaysDoc(results[j].skill)
        /\ results[j].score >= config.threshold
    /\ Scored # {}

\* C4: every document of the output that is not always-include has a score of
\* at least config.threshold.
C4_Threshold ==
    op = "scoreQuery" =>
        \A j \in Scored : results[j].score >= config.threshold

\* one document clears the default threshold and is returned, another matched
\* the query with a lower score and is left out
C4_Witness ==
    /\ op = "scoreQuery"
    /\ config.threshold = DEFAULT_CONFIG.threshold
    /\ Scored # {}
    /\ \E i \in DOMAIN allResults :
        /\ ~AlwaysDoc(allResults[i].skill)
        /\ allResults[i].score > 0
        /\ allResults[i].score < config.threshold
        /\ \A j \in DOMAIN results : results[j].skill # allResults[i].skill

(***************************************************************************)
(* Properties of the scorer.                                               *)
(***************************************************************************)
Scoring == op \in {"scoreAll", "scoreQuery"}

QueryTerms == Range(tokenizeQuery(query))

\* t is a contiguous part of keyword k (or k itself)
OccursIn(t, k) ==
    \E i \in 1..(Len(k) - Len(t) + 1) : SubSeq(k, i, i + Len(t) - 1) = t

\* C5 as stated: a query term that is neither a keyword nor a token of a
\* document has term frequency 0 there and is not among its matchedKeywords.
C5_Original ==
    Scoring =>
        \A i \in DOMAIN allResults : \A t \in QueryTerms :
            LET d == allResults[i].skill
            IN (t \notin Range(d.keywords) /\ t \notin Range(d.tokens)) =>
                  /\ getTermFrequency(d, t) = 0
                  /\ t \notin Range(allResults[i].matchedKeywords)

\* C5: a query term that is no token of a document and occurs in none of its
\* keywords, not even as a part of one, has term frequency 0 there and is not
\* among its matchedKeywords.
C5_AbsentTerm ==
    Scoring =>
        \A i \in DOMAIN allResults : \A t \in QueryTerms :
            LET d == allResults[i].skill
            IN (/\ t \notin Range(d.tokens)
                /\ \A k \in Range(d.keywords) : ~OccursIn(t, k)) =>
                  /\ getTermFrequency(d, t) = 0
                  /\ t \notin Range(allResults[i].matchedKeywords)

\* "GitHub SQL!": a document matched on github alone, sql being absent from it
\* and matched by another document
C5_Witness ==
    /\ op = "scoreAll"
    /\ query = MsgGithubSql
    /\ \E i, j \in DOMAIN allResults :
        /\ allResults[i].matchedKeywords = <<github>>
        /\ sql \notin Range(allTerms(allResults[i].skill))
        /\ sql \in Range(allResults[j].matchedKeywords)

\* C6: a score is never negative and is positive exactly when the document
\* matched a query term (stated for the default k1 and b).
C6_ScoreIffMatched ==
    (/\ Scoring
     /\ config.bm25K1 = DEFAULT_CONFIG.bm25K1
     /\ config.bm25B = DEFAULT_CONFIG.bm25B) =>
        \A i \in DOMAIN allResults :
            /\ allResults[i].score >= 0
            /\ allResults[i].score > 0 <=> allResults[i].matchedKeywords # <<>>

\* C7: scoreAll returns the empty sequence for the empty message and for a
\* message of stopwords (and one-letter words) only, whatever the index holds.
C7_NoTerms ==
    (Scoring /\ query \in {NoMessage, StopwordsOnly}) => allResults = <<>>

\* "The and, IS a" against an index of three skills
C7_Witness ==
    /\ op = "scoreAll"
    /\ query = StopwordsOnly
    /\ Len(index.skills) = 3
    /\ allResults = <<>>

\* the result scoreQuery makes up for an always-include document
ZeroResult(skill) == [skill |-> skill, score |-> 0, matchedKeywords |-> <<>>]

\* C8: for a message with no scorable term scoreQuery returns the
\* always-include documents, each with score 0 and no matched keyword, and
\* nothing else; nothing at all when there is no always-include document.
C8_NoTermsOnlyAlways ==
    (op = "scoreQuery" /\ query \in {NoMessage, StopwordsOnly}) =>
        LET always == SelectSeq(index.skills, AlwaysDoc)
        IN results = [i \in DOMAIN always |-> ZeroResult(always[i])]

\* threshold 0 would let a score of 0 through: two always-include documents
\* come out, the third document of the index does not
C8_Witness ==
    /\ op = "scoreQuery"
    /\ query = StopwordsOnly
    /\ config.threshold = 0
    /\ config.maxResults = DEFAULT_CONFIG.maxResults
    /\ Len(index.skills) = 3
    /\ Len(results) = 2

\* a holds t as a keyword only, b holds t as a token only, and they agree on
\* every other keyword and token
Twins(a, b, t) ==
    /\ t \in Range(a.keywords) /\ t \notin Range(a.tokens)
    /\ t \in Range(b.tokens) /\ t \notin Range(b.keywords)
    /\ SelectSeq(a.keywords, LAMBDA k : k # t) = b.keywords
    /\ SelectSeq(b.tokens, LAMBDA k : k # t) = a.tokens
    /\ Len(a.keywords) = Len(b.keywords) + 1
    /\ Len(b.tokens) = Len(a.tokens) + 1

KeywordBeatsToken ==
    \A i, j \in DOMAIN allResults : \A t \in QueryTerms :
        Twins(allResults[i].skill, allResults[j].skill, t) =>
            allResults[i].score > allResults[j].score

AllTerms == {github, git, sql, pr}

DF(t) == IF t \in DOMAIN index.documentFrequency THEN index.documentFrequency[t] ELSE 0

IndexOf(skill) == CHOOSE i \in DOMAIN index.skills : index.skills[i].name = skill.name

\* C11: the sequence scoreAll returns is in non-increasing order of score, and
\* documents of equal score keep the order they have in index.skills.
C11_SortedStable ==
    Scoring =>
        \A i, j \in DOMAIN allResults :
            i < j =>
                /\ allResults[i].score >= allResults[j].score
                /\ allResults[i].score = allResults[j].score =>
                       IndexOf(allResults[i].skill) < IndexOf(allResults[j].skill)

\* the last document of the index scores highest and comes first; the two
\* before it tie on a positive score and stay in index order
C11_Witness ==
    /\ op = "scoreAll"
    /\ Len(allResults) = 3
    /\ allResults[1].skill = index.skills[3]
    /\ allResults[2].skill = index.skills[1]
    /\ allResults[3].skill = index.skills[2]
    /\ allResults[1].score > allResults[2].score
    /\ allResults[2].score = allResults[3].score
    /\ allResults[3].score > 0

\* C12: for a query with at least one scorable term scoreAll returns one
\* result per document of the index, in some order, the documents of score 0
\* included.
C12_OnePerDocument ==
    (Scoring /\ QueryTerms # {}) =>
        /\ Len(allResults) = Len(index.skills)
        /\ \A i \in DOMAIN index.skills :
              Cardinality({j \in DOMAIN allResults :
                              allResults[j].skill = index.skills[i]}) = 1

\* three documents, one matched and two that share no term with the query
C12_Witness ==
    /\ op = "scoreAll"
    /\ QueryTerms # {}
    /\ Len(index.skills) = 3
    /\ Len(allResults) = 3
    /\ allResults[1].score > 0
    /\ allResults[2].score = 0 /\ allResults[2].matchedKeywords = <<>>
    /\ allResults[3].score = 0 /\ allResults[3].matchedKeywords = <<>>

(***************************************************************************)
(* The shape of scoreQuery's output.                                       *)
(***************************************************************************)
\* the always-include documents of the index, in index order
AlwaysDocs == SelectSeq(index.skills, AlwaysDoc)

\* the scorer's results for the other documents that clear the threshold, in
\* the scorer's order
Thresholded ==
    SelectSeq(allResults,
              LAMBDA r : ~AlwaysDoc(r.skill) /\ r.score >= config.threshold)

\* the output after its first Len(AlwaysDocs) entries
TopPart == SubSeq(results, Len(AlwaysDocs) + 1, Len(results))

\* C13: the output of scoreQuery is the results of the always-include
\* documents in index order, followed by the leading thresholded results of
\* the other documents in non-increasing order of score (the first maxResults
\* of them when maxResults >= 0); no such result precedes an always-include one.
C13_AlwaysThenTop ==
    op = "scoreQuery" =>
        /\ Len(results) >= Len(AlwaysDocs)
        /\ \A i \in DOMAIN AlwaysDocs : results[i].skill = AlwaysDocs[i]
        /\ Len(TopPart) <= Len(Thresholded)
        /\ \A i \in DOMAIN TopPart : TopPart[i] = Thresholded[i]
        /\ \A i, j \in DOMAIN TopPart : i < j => TopPart[i].score >= TopPart[j].score
        /\ config.maxResults >= 0 =>
              Len(TopPart) = (IF config.maxResults < Len(Thresholded)
                              THEN config.maxResults ELSE Len(Thresholded))
        /\ \A i, j \in DOMAIN results :
              (AlwaysDoc(results[j].skill) /\ ~AlwaysDoc(results[i].skill)) => j < i

\* two always-include documents in index order although the second outscores
\* the first, then a top result that outscores both
C13_Witness ==
    /\ op = "scoreQuery"
    /\ Len(results) = 3
    /\ AlwaysDoc(results[1].skill) /\ AlwaysDoc(results[2].skill)
    /\ ~AlwaysDoc(results[3].skill)
    /\ IndexOf(results[1].skill) < IndexOf(results[2].skill)
    /\ 0 < results[1].score
    /\ results[1].score < results[2].score
    /\ results[2].score < results[3].score

\* the query shares a term with the document: a query term is one of its
\* tokens or occurs in one of its keywords
Overlaps(d) ==
    \E t \in QueryTerms :
        \/ t \in Range(d.tokens)
        \/ \E k \in Range(d.keywords) : OccursIn(t, k)

\* C14: for an always-include document the query overlaps, scoreQuery emits
\* the scorer's own result (its score, its matched terms); for one the query
\* does not overlap, a result of score 0 with no matched keyword.
C14_AlwaysResult ==
    op = "scoreQuery" =>
        \A i \in DOMAIN AlwaysDocs :
            LET d == AlwaysDocs[i]
                r == results[i]
            IN IF Overlaps(d)
               THEN /\ r = scoreSkill(index, config.bm25K1, config.bm25B, d,
                                      tokenizeQuery(query))
                    /\ \E j \in DOMAIN allResults : allResults[j] = r
                    /\ r.matchedKeywords # <<>>
               ELSE r = ZeroResult(d)

\* "sql": one always-include document holds sql and comes out with its
\* positive score, the other does not and comes out with 0
C14_Witness ==
    /\ op = "scoreQuery"
    /\ query = MsgSql
    /\ Len(AlwaysDocs) = 2
    /\ \E i, j \in DOMAIN AlwaysDocs :
        /\ Overlaps(AlwaysDocs[i])
        /\ results[i].score > 0
        /\ results[i].matchedKeywords = <<sql>>
        /\ ~Overlaps(AlwaysDocs[j])
        /\ results[j] = ZeroResult(AlwaysDocs[j])

(***************************************************************************)
(* Properties of the index.                                                *)
(***************************************************************************)
Built == index # NoIndex

\* the keywords-union-tokens set of a document
DocTerms(d) == Range(d.keywords) \cup Range(d.tokens)

IndexTerms == UNION {DocTerms(index.skills[i]) : i \in DOMAIN index.skills}

\* the documents whose keywords-union-tokens set contains t
Holders(t) == {i \in DOMAIN index.skills : t \in DocTerms(index.skills[i])}

\* C15: in a built index documentFrequency has an entry for exactly the terms
\* of its documents, and the entry of a term is the number of documents whose
\* keywords-union-tokens set contains it (between 1 and the number of
\* documents; a term repeated in a document counts once).
C15_DocumentFrequency ==
    Built =>
        /\ DOMAIN index.documentFrequency = IndexTerms
        /\ \A t \in IndexTerms \cap DOMAIN index.documentFrequency :
              /\ index.documentFrequency[t] = Cardinality(Holders(t))
              /\ index.documentFrequency[t] >= 1
              /\ index.documentFrequency[t] <= Len(index.skills)

\* the same for the terms that are no property name of Object.prototype
C15_OrdinaryTerms ==
    Built =>
        /\ DOMAIN index.documentFrequency \subseteq IndexTerms
        /\ \A t \in IndexTerms \ {constructor, proto} :
              /\ t \in DOMAIN index.documentFrequency
              /\ index.documentFrequency[t] = Cardinality(Holders(t))

\* every keyword place and every token place of every document
TermPlaces ==
    UNION {({i} \X {"keyword"} \X DOMAIN index.skills[i].keywords)
               \cup ({i} \X {"token"} \X DOMAIN index.skills[i].tokens) :
           i \in DOMAIN index.skills}

\* C16: in a built index avgDocLength is the number of keywords and tokens of
\* all documents together divided by the number of documents, and 0 when the
\* index has no document.
C16_AvgDocLength ==
    Built =>
        IF Len(index.skills) = 0
        THEN index.avgDocLength.n = 0
        ELSE /\ index.avgDocLength.d > 0
             /\ index.avgDocLength.n * Len(index.skills)
                    = Cardinality(TermPlaces) * index.avgDocLength.d

\* three documents of 3, 2 and 2 keywords and tokens: the mean is 7/3
C16_Witness ==
    /\ Built
    /\ Len(index.skills) = 3
    /\ getDocLength(index.skills[1]) = 3
    /\ Len(index.skills[1].tokens) = 2
    /\ index.avgDocLength = [n |-> 7, d |-> 3]

(***************************************************************************)
(* Properties of the index file.                                           *)
(***************************************************************************)
\* a and b read the same in every field of a SkillEntry
SameSkill(a, b) ==
    /\ a.name = b.name
    /\ a.description = b.description
    /\ a.location = b.location
    /\ a.keywords = b.keywords
    /\ a.tokens = b.tokens
    /\ readTools(a) = readTools(b)
    /\ a.alwaysInclude = b.alwaysInclude

\* a and b are indexes that read the same in every field
SameIndex(a, b) ==
    /\ a # NoIndex /\ b # NoIndex
    /\ a.version = b.version
    /\ a.generated = b.generated
    /\ Len(a.skills) = Len(b.skills)
    /\ \A i \in DOMAIN a.skills : SameSkill(a.skills[i], b.skills[i])
    /\ DOMAIN a.documentFrequency = DOMAIN b.documentFrequency
    /\ \A t \in DOMAIN a.documentFrequency :
          a.documentFrequency[t] = b.documentFrequency[t]
    /\ a.avgDocLength = b.avgDocLength

Parses == file.kind = "file" /\ file.json

\* C18: loadIndex never throws; it returns null when the file is absent or
\* cannot be read or parsed, and what it returns is an index only when the
\* file exists and parses.
C18_LoadNeverThrows ==
    /\ ~loaded.threw
    /\ op = "loadIndex" =>
          /\ ~Parses => loaded.value = NoIndex
          /\ loaded.value # NoIndex => Parses

\* an index was built, and the file at the path is no JSON text
C18_Witness ==
    /\ op = "loadIndex"
    /\ Built
    /\ file = Garbage
    /\ ~loaded.threw
    /\ loaded.value = NoIndex

(***************************************************************************)
(* The index under queries.                                                *)
(***************************************************************************)
\* C19: once built, the index is never changed by a query: the order of
\* index.skills, every document's keywords, tokens and flags,
\* documentFrequency and avgDocLength stay as they were before the first
\* query, through any sequence of scoreQuery (and its scoreAll) calls.
C19_IndexUnchanged ==
    [][pc # "start" => index' = index]_vars

\* the scorer's results come in another order than index.skills: the last
\* document of the index scored highest
C19_Witness ==
    /\ op = "scoreQuery"
    /\ Len(index.skills) = 3
    /\ Len(allResults) = 3
    /\ allResults[1].skill = index.skills[3]
    /\ allResults[1].score > allResults[2].score
    /\ index.documentFrequency = calculateDocumentFrequency(index.skills)
    /\ index.avgDocLength = calculateAvgDocLength(index.skills)

(***************************************************************************)
(* Properties of the tokenizer.                                            *)
(***************************************************************************)
\* the text lower-cased, with every character other than a-z, 0-9,
\* whitespace and hyphen replaced by a space
Cleaned ==
    [i \in DOMAIN text |->
        IF IsKept(toLowerCase(text[i])) THEN toLowerCase(text[i]) ELSE " "]

\* <<i, j>>: Cleaned[i..j] is a word, a maximal stretch without whitespace
WordSpans ==
    {sp \in (DOMAIN text) \X (DOMAIN text) :
        /\ sp[1] <= sp[2]
        /\ \A k \in sp[1]..sp[2] : Cleaned[k] \notin Whitespace
        /\ sp[1] = 1 \/ Cleaned[sp[1] - 1] \in Whitespace
        /\ sp[2] = Len(text) \/ Cleaned[sp[2] + 1] \in Whitespace}

Word(sp) == SubSeq(Cleaned, sp[1], sp[2])

\* the words of two characters or more that are no stopword
KeptSpans == {sp \in WordSpans : Len(Word(sp)) >= 2 /\ Word(sp) \notin STOPWORDS}

Occurrences(queryTerms, t) ==
    Cardinality({i \in DOMAIN queryTerms : queryTerms[i] = t})

\* the sum, over the terms ts[1..n] that match d, of the occurrences of the
\* term in queryTerms times its BM25 value for d
RECURSIVE WeightedSum(_, _, _, _)
WeightedSum(d, queryTerms, ts, n) ==
    IF n = 0 THEN 0
    ELSE WeightedSum(d, queryTerms, ts, n - 1)
         + (IF getTermFrequency(d, ts[n]) > 0
            THEN Occurrences(queryTerms, ts[n])
                    * termScore(index, config.bm25K1, config.bm25B, d, ts[n])
            ELSE 0)

\* C24: a query term that occurs m times in the tokenized query adds m times
\* its BM25 value to the score of each document it matches, and is in that
\* document's matchedKeywords once.
C24_RepeatedTerm ==
    Scoring =>
        LET queryTerms == tokenizeQuery(query)
            ts == Unique(queryTerms)
        IN  \A i \in DOMAIN allResults :
                LET r == allResults[i]
                IN /\ r.score = WeightedSum(r.skill, queryTerms, ts, Len(ts))
                   /\ \A t \in Range(ts) :
                         Cardinality({j \in DOMAIN r.matchedKeywords :
                                         r.matchedKeywords[j] = t})
                            = (IF getTermFrequency(r.skill, t) > 0 THEN 1 ELSE 0)

\* "sql sql": a document holding sql scores twice the value of sql and lists
\* sql once
C24_Witness ==
    /\ op = "scoreAll"
    /\ query = MsgSqlTwice
    /\ \E i \in DOMAIN allResults :
        /\ allResults[i].score > 0
        /\ allResults[i].score
              = 2 * termScore(index, config.bm25K1, config.bm25B,
                              allResults[i].skill, sql)
        /\ allResults[i].matchedKeywords = <<sql>>

\* the documents that are not always-include and clear the threshold
Eligible ==
    {i \in DOMAIN allResults :
        /\ ~AlwaysDoc(allResults[i].skill)
        /\ allResults[i].score >= config.threshold}

\* the eligible documents that are not in the output
LeftOut ==
    {i \in Eligible :
        \A j \in DOMAIN results : results[j].skill.name # allResults[i].skill.name}

\* C25: every eligible document (not always-include, score at or over the
\* threshold) that is left out of scoreQuery's output scores no higher than
\* every document of the output that is not always-include.
C25_TopScores ==
    op = "scoreQuery" =>
        \A i \in LeftOut : \A j \in Scored :
            allResults[i].score <= results[j].score

\* maxResults 1: of two eligible documents the one with the strictly lower
\* score is left out
C25_Witness ==
    /\ op = "scoreQuery"
    /\ config.maxResults = 1
    /\ Cardinality(Scored) = 1
    /\ \E i \in LeftOut : \A j \in Scored :
          /\ allResults[i].score > 0
          /\ allResults[i].score < results[j].score

(***************************************************************************)
(* Properties of keyword extraction.                                       *)
(***************************************************************************)

\* the explicit entries followed by the tokens of the description, repeats
\* included
ExplicitThenDescription == extractKeywordsSection(content) \o tokenize(description)

\* the place of term's first occurrence in seq
FirstOccurrence(seq, term) == SetMin({i \in DOMAIN seq : seq[i] = term})

\* C21: extractKeywords(description, body) returns the explicit entries of the
\* Keywords section followed by the unique tokens of the description: every
\* term of the two lists appears exactly once, in the order of the terms'
\* first occurrences in explicit-then-description order.
C21_ExplicitThenDescription ==
    op = "extractKeywords" =>
        LET all == ExplicitThenDescription
            explicit == extractKeywordsSection(content)
        IN  /\ Range(keywords) = Range(all)
            /\ \A i, j \in DOMAIN keywords : i # j => keywords[i] # keywords[j]
            /\ \A i, j \in DOMAIN keywords :
                  i < j => FirstOccurrence(all, keywords[i]) < FirstOccurrence(all, keywords[j])
            /\ Len(keywords) >= Len(explicit)
            /\ SubSeq(keywords, 1, Len(explicit)) = explicit

\* a description whose tokens repeat and come in another order than the
\* explicit entries holding the same terms, and one adding a term to them
C21_Witness ==
    /\ op = "extractKeywords"
    /\ \/ /\ extractKeywordsSection(content) = <<git, sql>>
          /\ tokenize(description) = <<sql, git, sql>>
          /\ keywords = <<git, sql>>
       \/ /\ pr \in Range(extractKeywordsSection(content))
          /\ tokenize(description) = <<github, pr>>
          /\ keywords[Len(keywords)] = github

\* the lines of a text
RECURSIVE LinesFrom(_, _, _)
LinesFrom(str, i, cur) ==
    IF i > Len(str) THEN <<cur>>
    ELSE IF str[i] = "\n" THEN <<cur>> \o LinesFrom(str, i + 1, <<>>)
         ELSE LinesFrom(str, i + 1, Append(cur, str[i]))

LinesOf(str) == LinesFrom(str, 1, <<>>)

\* a line that is a heading of level 2: two # and no third
IsLevel2Heading(line) ==
    /\ Len(line) >= 2
    /\ line[1] = "#"
    /\ line[2] = "#"
    /\ (Len(line) = 2 \/ line[3] # "#")

\* a level-2 heading reading Keyword or Keywords, in any case
IsKeywordsHeading(line) ==
    /\ IsLevel2Heading(line)
    /\ lowerCase(trim(SubSeq(line, 3, Len(line)))) \in {keyword, Append(keyword, "s")}

\* the text between the first level-2 Keywords heading and the next level-2
\* heading or the end of the text; empty when there is no such heading
Level2Block(str) ==
    LET ls == LinesOf(str)
        headings == {i \in DOMAIN ls : IsKeywordsHeading(ls[i])}
        h == SetMin(headings)
        next == {j \in DOMAIN ls : j > h /\ IsLevel2Heading(ls[j])}
        last == IF next = {} THEN Len(ls) ELSE SetMin(next) - 1
    IN  IF headings = {} THEN <<>> ELSE JoinLines(SubSeq(ls, h + 1, last))

\* C26: extractKeywordsSection takes as the keyword block only the text after
\* a level-2 heading reading Keyword or Keywords (case-insensitive), up to the
\* next level-2 heading or the end of the text, and returns an empty list when
\* the body has no such heading.
C26_Level2Block ==
    op = "extractKeywordsSection" =>
        keywords = blockKeywords(trim(Level2Block(content)))

\* the same for bodies in which no line starts with three # and the Keywords
\* heading, when there is one, has text before the next level-2 heading
C26_WithoutLevel3 ==
    (/\ op = "extractKeywordsSection"
     /\ \A i \in DOMAIN LinesOf(content) :
           ~ startsWithAt(LinesOf(content)[i], 1, <<"#", "#", "#">>)
     /\ \/ \A i \in DOMAIN LinesOf(content) : ~ IsKeywordsHeading(LinesOf(content)[i])
        \/ trim(Level2Block(content)) # <<>>) =>
        keywords = blockKeywords(trim(Level2Block(content)))

\* the block extractKeywordsSection works on
KeywordsBlock == trim(keywordsMatch(content).block)

\* a line starting with - or *, then whitespace, then text
IsBulletLine(line) ==
    /\ Len(line) >= 3
    /\ line[1] \in {"-", "*"}
    /\ line[2] \in Whitespace
    /\ trim(SubSeq(line, 3, Len(line))) # <<>>

\* the remainders of the bullet lines of the block, trimmed, lower-cased and
\* kept when long enough
BulletKeywords ==
    LET remainders == {lowerCase(trim(SubSeq(line, 3, Len(line)))) :
                          line \in {l \in Range(LinesOf(KeywordsBlock)) : IsBulletLine(l)}}
    IN  {k \in remainders : Len(k) >= MIN_TOKEN_LENGTH}

\* the comma-split entries, taken when the block has no newline or has a comma
CommaKeywords ==
    IF "\n" \notin Range(KeywordsBlock) \/ "," \in Range(KeywordsBlock)
    THEN Range(cleanKeywords(splitComma(KeywordsBlock)))
    ELSE {}

\* C27: within the Keywords block a line contributes a bullet keyword only
\* when it starts with - or * followed by whitespace and then text; the keyword
\* is the rest of the line, trimmed and lower-cased, kept when its length is at
\* least 2; the result is these bullet keywords together with the comma-split
\* entries (taken when the block has no newline or holds a comma), each once.
C27_BulletKeywords ==
    (op = "extractKeywordsSection" /\ keywordsMatch(content).found) =>
        /\ Range(keywords) = CommaKeywords \cup BulletKeywords
        /\ \A i, j \in DOMAIN keywords : i # j => keywords[i] # keywords[j]

\* the same for blocks whose lines starting with - or * go on with whitespace
C27_SpacedBullets ==
    (/\ op = "extractKeywordsSection"
     /\ keywordsMatch(content).found
     /\ \A l \in Range(LinesOf(KeywordsBlock)) :
           (l # <<>> /\ l[1] \in {"-", "*"}) => IsBulletLine(l)) =>
        /\ Range(keywords) = CommaKeywords \cup BulletKeywords
        /\ \A i, j \in DOMAIN keywords : i # j => keywords[i] # keywords[j]

(***************************************************************************)
(* Properties of the scan of the skill directories.                        *)
(***************************************************************************)

Scanned == op = "buildIndex" /\ pc = "ready" /\ index # NoIndex

\* a SKILL.md with a name and a description in its front matter
IsComplete(entry) ==
    /\ entry.kind = "directory"
    /\ entry.skillFile.kind = "file"
    /\ "name" \in DOMAIN entry.skillFile.frontmatter
    /\ "description" \in DOMAIN entry.skillFile.frontmatter

\* a SKILL.md that lacks the name or the description, or cannot be read
IsIncomplete(entry) ==
    /\ entry.kind = "directory"
    /\ entry.skillFile.kind # "absent"
    /\ ~ IsComplete(entry)

\* the entries of a scanned directory
EntriesOf(path) == IF disk[path].kind = "directory" THEN disk[path].entries ELSE <<>>

\* nothing at or before entry i that makes statSync throw
ReachedByScan(path, i) == \A h \in 1..i : EntriesOf(path)[h].kind # "dangling"

ScanOrder == <<"workspace", "managed-skills">> \o additionalPaths

\* what scanSkillDirectory yields for each directory of a list
RECURSIVE ScansOf(_)
ScansOf(dirs) ==
    IF dirs = <<>> THEN <<>>
    ELSE <<scanSkillDirectory(disk[Head(dirs)], Head(dirs))>> \o ScansOf(Tail(dirs))

\* the places in the scan order whose directory yields a skill of that name
PlacesOf(scans, name) ==
    {n \in DOMAIN scans : \E k \in DOMAIN scans[n] : scans[n][k].name = name}

\* the first skill of that name among those a directory yields
FirstIn(found, name) == found[SetMin({k \in DOMAIN found : found[k].name = name})]

\* C23: the names of the documents of an index returned by buildIndex are
\* pairwise distinct, and of the skills sharing a name the index keeps the
\* first in scan order: workspace skills directory, managed-skills directory,
\* then the additional paths in the order given.
C23_FirstInScanOrder ==
    Scanned =>
        LET scans == ScansOf(ScanOrder)
        IN  /\ \A i, j \in DOMAIN index.skills :
                  i # j => index.skills[i].name # index.skills[j].name
            /\ \A i \in DOMAIN index.skills :
                  LET places == PlacesOf(scans, index.skills[i].name)
                  IN  /\ places # {}
                      /\ index.skills[i] = FirstIn(scans[SetMin(places)], index.skills[i].name)
            /\ \A name \in {"alpha", "beta", "gamma"} :
                  PlacesOf(scans, name) # {} =>
                      \E i \in DOMAIN index.skills : index.skills[i].name = name

\* a name found in the managed skills and in both additional paths, given
\* in the order more, extra, and not in the workspace: the managed one is kept;
\* and a name found only in the two additional paths: the one of more is kept
C23_Witness ==
    /\ Scanned
    /\ additionalPaths = <<"more", "extra">>
    /\ disk["workspace"] = NoDirectory
    /\ disk["managed-skills"].entries = <<SkillDir(AlphaFile)>>
    /\ disk["more"].entries = <<SkillDir(BetaFile), SkillDir(AlphaFile)>>
    /\ disk["extra"].entries = <<SkillDir(BetaFile), SkillDir(AlphaFile)>>
    /\ \E i, j \in DOMAIN index.skills :
          /\ index.skills[i].name = "alpha"
          /\ index.skills[i].location.basePath = "managed-skills"
          /\ index.skills[j].name = "beta"
          /\ index.skills[j].location.basePath = "more"

(***************************************************************************)
(* Properties of getConfig.                                                *)
(***************************************************************************)

\* the number the variable's string parses to, when it is set and parses
Parsed(name) ==
    IF name = MAX_RESULTS THEN parseInt(orEmpty(env[name]))
    ELSE parseFloat(orEmpty(env[name]))

\* the value the configuration has under that variable
Configured(name) ==
    IF name = MAX_RESULTS THEN Int2Rat(config.maxResults)
    ELSE IF name = THRESHOLD THEN Rat(config.threshold, Scale)
    ELSE IF name = BM25_K1 THEN config.bm25K1
    ELSE config.bm25B

Default(name) ==
    IF name = MAX_RESULTS THEN Int2Rat(3)
    ELSE IF name = THRESHOLD THEN Rat(3, 10)
    ELSE IF name = BM25_K1 THEN Rat(12, 10)
    ELSE Rat(75, 100)

NumericNames == {MAX_RESULTS, THRESHOLD, BM25_K1, BM25_B}

\* C30: getConfig takes maxResults, threshold, bm25K1 and bm25B from their
\* environment variables whenever the variable holds a string that parses to
\* a number, and uses the defaults 3, 0.3, 1.2 and 0.75 only when the variable
\* is unset or does not parse to a number.
C30_FromEnvironment ==
    op = "getConfig" =>
        \A name \in NumericNames :
            Configured(name) = IF env[name].set /\ ~ Parsed(name).nan
                               THEN Parsed(name).value
                               ELSE Default(name)

\* the same for the variables that do not parse to zero
C30_NonZero ==
    op = "getConfig" =>
        \A name \in NumericNames :
            (Parsed(name).nan \/ Parsed(name).value.n # 0) =>
                Configured(name) = IF env[name].set /\ ~ Parsed(name).nan
                                   THEN Parsed(name).value
                                   ELSE Default(name)

(***************************************************************************)
(* Properties of the commands.                                             *)
(***************************************************************************)

FoundNames ==
    UNION {{EntriesOf(path)[i].skillFile.frontmatter.name :
               i \in {h \in DOMAIN EntriesOf(path) :
                         IsComplete(EntriesOf(path)[h]) /\ ReachedByScan(path, h)}} :
           path \in Range(ScanOrder)}

FoundAny == FoundNames # {}

====
